---- MODULE Spec2Model ----
(***************************************************************************)
(* A model of the Snapshot Store ("Time Machine") of the NYZTrade GEX      *)
(* dashboards and of the futures price resolution chain.                   *)
(*                                                                         *)
(* A Streamlit script is re-executed from top to bottom after every user   *)
(* event (one widget change or button press per execution); st.rerun()     *)
(* ends the execution and queues a fresh one.  One action of the model is  *)
(* one execution of the script: the event that triggered it, the time      *)
(* machine rendering, and the main analysis with its capture.  Time is the *)
(* wall clock in whole seconds (capture_snapshot drops the microseconds);  *)
(* it never runs backwards.  A widget that the user did not touch returns  *)
(* the value the script passes as its default.                             *)
(***************************************************************************)
EXTENDS Integers, Sequences, FiniteSets, TLC

(***************************************************************************)
(* Bounds of the model.                                                    *)
(***************************************************************************)
\* The wall clock stops here (seconds since the session started).
MaxTime == 1080
\* The retention cap of a series.  The code keeps 500 entries
\* (streamlit_app.py:287); the model keeps this many, so that the
\* cap is exceeded within MaxTime.
SnapshotCap == 3
\* Seconds that may pass between two executions of the script.
ClockSteps == {0, 360}
\* The expiry selections the user makes (of [0, 1, 2]); the symbol stays
\* "NIFTY", so there are two ConfigKeys.
ExpiryIndexes == {0, 1}
\* The capture intervals the user selects (of [1, 2, 3, 5, 10] minutes, and
\* of [1, 2, 3, 5] in dashboard_with_database.py).
IntervalOptions == {3, 10}
DbIntervalOptions == {3, 5}
\* The quick-jump presets the user presses (of 5m .. 3h, and Start = 9999).
QuickJumpPresets == {5, 9999}

(***************************************************************************)
(* Values.                                                                 *)
(***************************************************************************)
\* None, for last_capture_time and for selected_time_index.
NoTime == -1
NoIndex == -1
\* None, for current_config_key.
NoKey == <<>>
\* None, where a snapshot is expected (data.get(t), historical_data).
NoSnapshot == [config_key |-> NoKey, fetched_at |-> NoTime]
\* In the place of a snapshot: the list index raised IndexError.
IndexError == [config_key |-> NoKey, fetched_at |-> -2]

symbol == "NIFTY"

get_config_key(sym, expiry_index) == <<sym, expiry_index>>

ConfigKeys == {get_config_key(symbol, e) : e \in ExpiryIndexes}

EmptyConfig == [times |-> <<>>, data |-> <<>>]

\* The defaults of init_session_state.
SessionDefaults ==
    [snapshots_by_config |-> <<>>,
     current_config_key  |-> NoKey,
     selected_time_index |-> NoIndex,
     is_live_mode        |-> TRUE,
     last_capture_time   |-> NoTime,
     auto_capture        |-> TRUE,
     capture_interval    |-> 3,
     force_capture       |-> FALSE]

VARIABLES
    session_state,   \* st.session_state
    expiry_index,    \* the sidebar's expiry selectbox
    clock,           \* the wall clock, in seconds
    rerun_pending,   \* st.rerun() was called: a fresh execution is queued
    result,          \* history: what the last execution did
    accepted_at,     \* history: per ConfigKey, when its last capture was accepted
    captured_times,  \* history: per ConfigKey, the times of the captures accepted
                     \* since the key was last cleared
    market,          \* what the providers and the option chain answer in one
                     \* call of fetch_and_calculate_gex_dex
    chain,           \* the price resolution chain: the strategy it is at, the
                     \* price and label it holds, the strategies attempted
    fetched,         \* what fetch_and_calculate_gex_dex returned, once it has
    greeks,          \* one option's inputs and the Greeks computed for them
    flow,            \* one exposure table and the analytics computed on it
    race             \* two capture_snapshot calls on one key, step by step

store_vars == <<session_state, expiry_index, clock, rerun_pending, result, accepted_at,
                captured_times>>

chain_vars == <<market, chain, fetched>>

calc_vars == <<greeks, flow, race>>

vars == <<session_state, expiry_index, clock, rerun_pending, result, accepted_at,
          captured_times, market, chain, fetched, greeks, flow, race>>

(***************************************************************************)
(* Python list and dict helpers.                                           *)
(***************************************************************************)
\* seq[i] with Python's 0-based index.
At(seq, i) == seq[i + 1]

\* dict.get(k) with default None.
DictGet(d, k) == IF k \in DOMAIN d THEN d[k] ELSE NoSnapshot

\* d[k] = v
DictPut(d, k, v) == [x \in (DOMAIN d) \cup {k} |-> IF x = k THEN v ELSE d[x]]

\* d.pop(k, None)
DictPop(d, k) == [x \in (DOMAIN d) \ {k} |-> d[x]]

\* x in list
InList(seq, x) == \E i \in 1..Len(seq) : seq[i] = x

\* list.sort()
ListSort(seq) == SortSeq(seq, LAMBDA a, b : a < b)

Abs(x) == IF x < 0 THEN -x ELSE x

(***************************************************************************)
(* streamlit_app.py: the time machine functions.                           *)
(***************************************************************************)
get_current_snapshots(ss) ==
    LET key == ss.current_config_key
    IN  IF key # NoKey /\ key \in DOMAIN ss.snapshots_by_config
        THEN ss.snapshots_by_config[key]
        ELSE EmptyConfig

\* Mutant: the eviction pops the newest entry instead of the oldest.
RECURSIVE LimitSnapshots_PopNewest(_)
LimitSnapshots_PopNewest(config) ==
    IF Len(config.times) > SnapshotCap
    THEN LimitSnapshots_PopNewest(
             [times |-> SubSeq(config.times, 1, Len(config.times) - 1),
              data  |-> [x \in (DOMAIN config.data) \ {config.times[Len(config.times)]}
                            |-> config.data[x]]])
    ELSE config

\* while len(config['times']) > 500: pop the oldest from the list and the dict.
RECURSIVE LimitSnapshots(_)
LimitSnapshots(config) ==
    IF Len(config.times) > SnapshotCap
    THEN LimitSnapshots([times |-> Tail(config.times),
                         data  |-> DictPop(config.data, Head(config.times))])
    ELSE config

\* Mutant: the gate ignores force_capture.
CaptureRejected_NoForce(ss, now) ==
    /\ ss.last_capture_time # NoTime
    /\ (now - ss.last_capture_time) < ss.capture_interval * 60

\* The interval gate: TRUE when the capture is rejected.
CaptureRejected(ss, now) ==
    /\ ss.last_capture_time # NoTime
    /\ (now - ss.last_capture_time) < ss.capture_interval * 60
    /\ ~ss.force_capture

\* Mutant: the time is appended without the membership test.
StoreSnapshot_AlwaysAppend(config, now, snapshot) ==
    [times |-> SortSeq(Append(config.times, now), LAMBDA a, b : a < b),
     data  |-> [x \in (DOMAIN config.data) \cup {now} |->
                   IF x = now THEN snapshot ELSE config.data[x]]]

\* config['data'][now] = snapshot; append now to the times unless it is there.
StoreSnapshot(config, now, snapshot) ==
    [times |-> IF InList(config.times, now)
               THEN config.times
               ELSE ListSort(Append(config.times, now)),
     data  |-> DictPut(config.data, now, snapshot)]

\* Mutant: a rejected capture still moves the gate's reference time.
capture_snapshot_RejectTouches(ss, df, expiry, now) ==
    IF CaptureRejected(ss, now)
    THEN [ss |-> [ss EXCEPT !.last_capture_time = now], accepted |-> FALSE]
    ELSE LET config_key == get_config_key(symbol, expiry)
             before == IF config_key \in DOMAIN ss.snapshots_by_config
                       THEN ss.snapshots_by_config[config_key]
                       ELSE EmptyConfig
             config == LimitSnapshots(StoreSnapshot(before, now, df))
         IN  [ss |-> [ss EXCEPT !.snapshots_by_config =
                                    DictPut(ss.snapshots_by_config, config_key, config),
                                !.last_capture_time = now,
                                !.force_capture = FALSE],
              accepted |-> TRUE]

\* capture_snapshot: the session state after the call, and what it returns.
\* The snapshot holds the table with its symbol and expiry_index.
capture_snapshot(ss, df, expiry, now) ==
    IF CaptureRejected(ss, now)
    THEN [ss |-> ss, accepted |-> FALSE]
    ELSE LET config_key == get_config_key(symbol, expiry)
             before == IF config_key \in DOMAIN ss.snapshots_by_config
                       THEN ss.snapshots_by_config[config_key]
                       ELSE EmptyConfig
             stored == StoreSnapshot(before, now, df)
             config == LimitSnapshots(stored)
         IN  [ss |-> [ss EXCEPT !.snapshots_by_config =
                                    DictPut(ss.snapshots_by_config, config_key, config),
                                !.last_capture_time = now,
                                !.force_capture = FALSE],
              accepted |-> TRUE]

\* The index whose snapshot time is closest to now - minutes (the first one
\* on a tie, as Python's min).
QuickJumpTarget(snapshot_times, minutes, now) ==
    IF minutes = 9999
    THEN 0
    ELSE LET target_time == now - minutes * 60
             dist(i) == Abs(At(snapshot_times, i) - target_time)
             n == Len(snapshot_times)
         IN  CHOOSE i \in 0..(n - 1) :
                 /\ \A j \in 0..(n - 1) : dist(i) <= dist(j)
                 /\ \A j \in 0..(i - 1) : dist(j) > dist(i)

\* The two settings widgets: the checkbox and the interval selectbox.
CaptureSettings(ss, ev) ==
    [ss EXCEPT !.auto_capture = IF ev.type = "toggle_auto" THEN ~@ ELSE @,
               !.capture_interval = IF ev.type = "set_interval" THEN ev.arg ELSE @]

\* Mutant: the lookup indexes the list without the range test.
HistoricalLookup_NoRangeTest(ss, config) ==
    IF ~ss.is_live_mode /\ ss.selected_time_index # NoIndex
    THEN IF ss.selected_time_index < Len(config.times)
         THEN DictGet(config.data, At(config.times, ss.selected_time_index))
         ELSE IndexError
    ELSE NoSnapshot

\* The lookup that ends render_time_machine.
HistoricalLookup(ss, config) ==
    IF ~ss.is_live_mode /\ ss.selected_time_index # NoIndex
    THEN IF ss.selected_time_index < Len(config.times)
         THEN DictGet(config.data, At(config.times, ss.selected_time_index))
         ELSE NoSnapshot
    ELSE NoSnapshot

\* Mutant: the slider leaves Live mode without pinning the index.
TimeSlider_ModeOnly(ss, snapshot_times, ev) ==
    LET n == Len(snapshot_times)
        current_idx == IF \/ ss.selected_time_index = NoIndex
                          \/ ss.selected_time_index >= n
                       THEN n - 1
                       ELSE ss.selected_time_index
        selected_idx == IF ev.type = "slider" THEN ev.arg ELSE current_idx
    IN  IF selected_idx # n - 1
        THEN [ss EXCEPT !.is_live_mode = FALSE]
        ELSE ss

\* The slider: it returns the index the user moved it to, or else its default.
TimeSlider(ss, snapshot_times, ev) ==
    LET n == Len(snapshot_times)
        current_idx == IF \/ ss.selected_time_index = NoIndex
                          \/ ss.selected_time_index >= n
                       THEN n - 1
                       ELSE ss.selected_time_index
        selected_idx == IF ev.type = "slider" THEN ev.arg ELSE current_idx
    IN  IF selected_idx # n - 1
        THEN [ss EXCEPT !.is_live_mode = FALSE, !.selected_time_index = selected_idx]
        ELSE ss

GoLive(ss) == [ss EXCEPT !.is_live_mode = TRUE, !.selected_time_index = NoIndex]

\* Mutant: the clear empties the series of every key.
ClearConfig_AllKeys(ss, config_key) ==
    [ss EXCEPT !.snapshots_by_config = [k \in DOMAIN @ |-> EmptyConfig],
               !.selected_time_index = NoIndex,
               !.is_live_mode = TRUE]

\* "Clear This Config"
ClearConfig(ss, config_key) ==
    [ss EXCEPT !.snapshots_by_config =
                   IF config_key \in DOMAIN @ THEN DictPut(@, config_key, EmptyConfig) ELSE @,
               !.selected_time_index = NoIndex,
               !.is_live_mode = TRUE]

\* render_time_machine: the session state after it, the historical data it
\* returns, and whether it ended in st.rerun().
render_time_machine(ss, expiry, ev, now) ==
    LET config_key == get_config_key(symbol, expiry)
        s1 == IF ss.current_config_key # config_key
              THEN [ss EXCEPT !.current_config_key = config_key,
                              !.selected_time_index = NoIndex,
                              !.is_live_mode = TRUE]
              ELSE ss
        config == get_current_snapshots(s1)
        snapshot_times == config.times
        s2 == IF Len(snapshot_times) > 1 THEN TimeSlider(s1, snapshot_times, ev) ELSE s1
        s3 == CaptureSettings(s2, ev)
    IN  IF ~s1.is_live_mode /\ ev.type = "go_live"
        THEN [ss |-> GoLive(s1), historical_data |-> NoSnapshot, rerun |-> TRUE]
        ELSE IF Len(snapshot_times) = 0
        THEN [ss |-> CaptureSettings(s1, ev), historical_data |-> NoSnapshot, rerun |-> FALSE]
        ELSE IF Len(snapshot_times) > 1 /\ ev.type = "jump"
        THEN [ss |-> [s2 EXCEPT !.selected_time_index =
                                    QuickJumpTarget(snapshot_times, ev.arg, now),
                                !.is_live_mode = FALSE],
              historical_data |-> NoSnapshot, rerun |-> TRUE]
        ELSE IF ev.type = "clear"
        THEN [ss |-> ClearConfig(s3, config_key), historical_data |-> NoSnapshot, rerun |-> TRUE]
        ELSE [ss |-> s3, historical_data |-> HistoricalLookup(s3, config), rerun |-> FALSE]

\* What an execution did: the branch the main analysis took ("raised" when
\* the script ended in an exception), the call of
\* capture_snapshot (made or not, forced or not, accepted or not).  It ran
\* for the ConfigKey of expiry_index, at the time the clock shows.
Result(branch, captured, forced) ==
    [branch |-> branch, captured |-> captured, forced |-> forced]

Idle == Result("none", "none", FALSE)

\* fetch_data, cached for 60 seconds per (symbol, strikes_range, expiry_index):
\* the exposure table of the ConfigKey as the market stands at now, or "error".
\* Two fetches for one key in the same second return the same table.
fetch_data(expiry, now, outcome) ==
    IF outcome = "error"
    THEN NoSnapshot
    ELSE [config_key |-> get_config_key(symbol, expiry), fetched_at |-> now]

\* Mutant: the capture is made in the historical branch as well.
main_analysis_CaptureInHistory(ss, expiry, historical_data, df, now) ==
    IF historical_data = IndexError
    THEN [ss |-> ss, result |-> Result("raised", "none", FALSE)]
    ELSE IF df = NoSnapshot
    THEN [ss |-> ss, result |-> Result("stopped", "none", FALSE)]
    ELSE LET branch == IF historical_data # NoSnapshot /\ ~ss.is_live_mode
                       THEN "historical"
                       ELSE "live"
         IN  IF ss.auto_capture \/ ss.force_capture
             THEN LET c == capture_snapshot(ss, df, expiry, now)
                  IN  [ss |-> c.ss,
                       result |-> Result(branch,
                                         IF c.accepted THEN "accepted" ELSE "rejected",
                                         ss.force_capture)]
             ELSE [ss |-> ss, result |-> Result(branch, "none", FALSE)]

\* The main analysis: the historical branch, or the live branch with its
\* fetch and capture.  df is the fetched exposure table, or None.
main_analysis(ss, expiry, historical_data, df, now) ==
    LET config_key == get_config_key(symbol, expiry)
    IN  IF historical_data \notin {NoSnapshot, IndexError} /\ ~ss.is_live_mode
        THEN [ss |-> ss,
              result |-> Result("historical", "none", FALSE)]
        ELSE IF historical_data = IndexError
        THEN [ss |-> ss,
              result |-> Result("raised", "none", FALSE)]
        ELSE IF df = NoSnapshot
        THEN [ss |-> ss,
              result |-> Result("stopped", "none", FALSE)]
        ELSE     IF ss.auto_capture \/ ss.force_capture
                 THEN LET c == capture_snapshot(ss, df, expiry, now)
                      IN  [ss |-> c.ss,
                           result |-> Result("live",
                                             IF c.accepted THEN "accepted" ELSE "rejected",
                                             ss.force_capture)]
                 ELSE [ss |-> ss,
                       result |-> Result("live", "none", FALSE)]

\* The sidebar: "Capture Now" sets force_capture.
Sidebar(ss, ev) ==
    IF ev.type = "capture_now" THEN [ss EXCEPT !.force_capture = TRUE] ELSE ss

Event(type, arg) == [type |-> type, arg |-> arg]

\* One execution of streamlit_app.py for the expiry selected, triggered by ev.
Execute(expiry, ev) ==
    \E d \in ClockSteps, outcome \in {"ok", "error"} :
        LET now == clock + d
            r == render_time_machine(Sidebar(session_state, ev), expiry, ev, now)
            m == main_analysis(r.ss, expiry, r.historical_data,
                               fetch_data(expiry, now, outcome), now)
            config_key == get_config_key(symbol, expiry)
        IN  /\ now <= MaxTime
            /\ UNCHANGED <<chain_vars, calc_vars>>
            /\ clock' = now
            /\ expiry_index' = expiry
            /\ IF r.rerun
               THEN /\ session_state' = r.ss
                    /\ rerun_pending' = TRUE
                    /\ result' = Result("rerun", "none", FALSE)
                    /\ UNCHANGED accepted_at
                    /\ captured_times' = IF ev.type = "clear"
                                         THEN [captured_times EXCEPT ![config_key] = {}]
                                         ELSE captured_times
               ELSE /\ session_state' = m.ss
                    /\ rerun_pending' = FALSE
                    /\ result' = m.result
                    /\ accepted_at' = IF m.result.captured = "accepted"
                                      THEN [accepted_at EXCEPT ![config_key] = now]
                                      ELSE accepted_at
                    /\ captured_times' = IF m.result.captured = "accepted"
                                         THEN [captured_times EXCEPT ![config_key] = @ \cup {now}]
                                         ELSE captured_times

CurrentTimes ==
    LET key == get_config_key(symbol, expiry_index)
    IN  IF key \in DOMAIN session_state.snapshots_by_config
        THEN session_state.snapshots_by_config[key].times
        ELSE <<>>

\* The execution that st.rerun() queued.
Rerun ==
    /\ rerun_pending
    /\ Execute(expiry_index, Event("none", 0))

\* "Refresh Now", the auto-refresh timer, or the first load of the page.
Refresh ==
    /\ ~rerun_pending
    /\ Execute(expiry_index, Event("none", 0))

SelectExpiry(e) ==
    /\ ~rerun_pending
    /\ e # expiry_index
    /\ Execute(e, Event("select_expiry", e))

PressCaptureNow ==
    /\ ~rerun_pending
    /\ Execute(expiry_index, Event("capture_now", 0))

PressGoLive ==
    /\ ~rerun_pending
    /\ ~session_state.is_live_mode
    /\ Execute(expiry_index, Event("go_live", 0))

MoveSlider(i) ==
    /\ ~rerun_pending
    /\ Len(CurrentTimes) > 1
    /\ i < Len(CurrentTimes)
    /\ Execute(expiry_index, Event("slider", i))

PressQuickJump(minutes) ==
    /\ ~rerun_pending
    /\ Len(CurrentTimes) > 1
    /\ Execute(expiry_index, Event("jump", minutes))

PressClear ==
    /\ ~rerun_pending
    /\ Len(CurrentTimes) > 0
    /\ Execute(expiry_index, Event("clear", 0))

SelectInterval(minutes) ==
    /\ ~rerun_pending
    /\ minutes # session_state.capture_interval
    /\ Execute(expiry_index, Event("set_interval", minutes))

ToggleAutoCapture ==
    /\ ~rerun_pending
    /\ Execute(expiry_index, Event("toggle_auto", 0))

(***************************************************************************)
(* dashboard_with_database.py: the same store, with the time machine       *)
(* inline in the script.  capture_snapshot, the slider, the lookup and the *)
(* main analysis are the code of streamlit_app.py, line for line.          *)
(***************************************************************************)
\* The sidebar: it sets current_config_key, reads the settings widgets and
\* the "Capture Now" button.
DbSidebar(ss, expiry, ev) ==
    [ss EXCEPT !.current_config_key = get_config_key(symbol, expiry),
               !.auto_capture = IF ev.type = "toggle_auto" THEN ~@ ELSE @,
               !.capture_interval = IF ev.type = "set_interval" THEN ev.arg ELSE @,
               !.force_capture = IF ev.type = "capture_now" THEN TRUE ELSE @]

\* The time machine section: Go Live, the slider, the quick jumps, the lookup.
DbTimeMachine(ss, ev, now) ==
    LET config == get_current_snapshots(ss)
        snapshot_times == config.times
        s2 == IF Len(snapshot_times) > 1 THEN TimeSlider(ss, snapshot_times, ev) ELSE ss
    IN  IF ~ss.is_live_mode /\ ev.type = "go_live"
        THEN [ss |-> GoLive(ss), historical_data |-> NoSnapshot, rerun |-> TRUE]
        ELSE IF Len(snapshot_times) > 1 /\ ev.type = "jump"
        THEN [ss |-> [s2 EXCEPT !.selected_time_index =
                                    QuickJumpTarget(snapshot_times, ev.arg, now),
                                !.is_live_mode = FALSE],
              historical_data |-> NoSnapshot, rerun |-> TRUE]
        ELSE IF Len(snapshot_times) > 1
        THEN [ss |-> s2, historical_data |-> HistoricalLookup(s2, config), rerun |-> FALSE]
        ELSE [ss |-> ss, historical_data |-> NoSnapshot, rerun |-> FALSE]

\* One execution of dashboard_with_database.py.
DbExecute(expiry, ev) ==
    \E d \in ClockSteps, outcome \in {"ok", "error"} :
        LET now == clock + d
            r == DbTimeMachine(DbSidebar(session_state, expiry, ev), ev, now)
            m == main_analysis(r.ss, expiry, r.historical_data,
                               fetch_data(expiry, now, outcome), now)
            config_key == get_config_key(symbol, expiry)
        IN  /\ now <= MaxTime
            /\ UNCHANGED <<chain_vars, calc_vars>>
            /\ clock' = now
            /\ expiry_index' = expiry
            /\ IF r.rerun
               THEN /\ session_state' = r.ss
                    /\ rerun_pending' = TRUE
                    /\ result' = Result("rerun", "none", FALSE)
                    /\ UNCHANGED <<accepted_at, captured_times>>
               ELSE /\ session_state' = m.ss
                    /\ rerun_pending' = FALSE
                    /\ result' = m.result
                    /\ accepted_at' = IF m.result.captured = "accepted"
                                      THEN [accepted_at EXCEPT ![config_key] = now]
                                      ELSE accepted_at
                    /\ captured_times' = IF m.result.captured = "accepted"
                                         THEN [captured_times EXCEPT ![config_key] = @ \cup {now}]
                                         ELSE captured_times

DbRerun ==
    /\ rerun_pending
    /\ DbExecute(expiry_index, Event("none", 0))

DbRefresh ==
    /\ ~rerun_pending
    /\ DbExecute(expiry_index, Event("none", 0))

DbSelectExpiry(e) ==
    /\ ~rerun_pending
    /\ e # expiry_index
    /\ DbExecute(e, Event("select_expiry", e))

DbPressCaptureNow ==
    /\ ~rerun_pending
    /\ DbExecute(expiry_index, Event("capture_now", 0))

DbPressGoLive ==
    /\ ~rerun_pending
    /\ ~session_state.is_live_mode
    /\ DbExecute(expiry_index, Event("go_live", 0))

DbMoveSlider(i) ==
    /\ ~rerun_pending
    /\ Len(CurrentTimes) > 1
    /\ i < Len(CurrentTimes)
    /\ DbExecute(expiry_index, Event("slider", i))

DbPressQuickJump(minutes) ==
    /\ ~rerun_pending
    /\ Len(CurrentTimes) > 1
    /\ DbExecute(expiry_index, Event("jump", minutes))

DbSelectInterval(minutes) ==
    /\ ~rerun_pending
    /\ minutes # session_state.capture_interval
    /\ DbExecute(expiry_index, Event("set_interval", minutes))

DbToggleAutoCapture ==
    /\ ~rerun_pending
    /\ DbExecute(expiry_index, Event("toggle_auto", 0))

DbNext ==
    \/ DbRerun
    \/ DbRefresh
    \/ \E e \in ExpiryIndexes : DbSelectExpiry(e)
    \/ DbPressCaptureNow
    \/ DbPressGoLive
    \/ \E i \in 0..SnapshotCap : DbMoveSlider(i)
    \/ \E minutes \in QuickJumpPresets : DbPressQuickJump(minutes)
    \/ \E minutes \in DbIntervalOptions : DbSelectInterval(minutes)
    \/ DbToggleAutoCapture

(***************************************************************************)
(* The dashboard inside gex_calculator.py: one series for the session, in  *)
(* session_state.snapshot_times and session_state.data_snapshots.          *)
(***************************************************************************)
CalcSessionDefaults ==
    [data_snapshots      |-> <<>>,
     snapshot_times      |-> <<>>,
     selected_time_index |-> NoIndex,
     is_live_mode        |-> TRUE,
     last_capture_time   |-> NoTime,
     auto_capture        |-> TRUE,
     capture_interval    |-> 3,
     force_capture       |-> FALSE]

CalcSeries(ss) == [times |-> ss.snapshot_times, data |-> ss.data_snapshots]

\* capture_snapshot of gex_calculator.py: its interval check does not look
\* at force_capture.
calc_capture_snapshot(ss, df, now) ==
    IF /\ ss.last_capture_time # NoTime
       /\ (now - ss.last_capture_time) < ss.capture_interval * 60
    THEN [ss |-> ss, accepted |-> FALSE]
    ELSE LET stored == LimitSnapshots(StoreSnapshot(CalcSeries(ss), now, df))
         IN  [ss |-> [ss EXCEPT !.snapshot_times = stored.times,
                                !.data_snapshots = stored.data,
                                !.last_capture_time = now],
              accepted |-> TRUE]

\* The slider of gex_calculator.py: its default is the pinned index as it is.
CalcTimeSlider(ss, ev) ==
    LET n == Len(ss.snapshot_times)
        current_idx == IF ss.selected_time_index = NoIndex
                       THEN n - 1
                       ELSE ss.selected_time_index
        selected_idx == IF ev.type = "slider" THEN ev.arg ELSE current_idx
    IN  IF selected_idx # n - 1
        THEN [ss EXCEPT !.is_live_mode = FALSE, !.selected_time_index = selected_idx]
        ELSE ss

\* The lookup of gex_calculator.py indexes the list without a range test.
CalcHistoricalLookup(ss) ==
    IF ~ss.is_live_mode /\ ss.selected_time_index # NoIndex
    THEN IF ss.selected_time_index < Len(ss.snapshot_times)
         THEN DictGet(ss.data_snapshots, At(ss.snapshot_times, ss.selected_time_index))
         ELSE IndexError
    ELSE NoSnapshot

calc_render_time_machine(ss, ev, now) ==
    LET n == Len(ss.snapshot_times)
        s2 == IF n > 1 THEN CalcTimeSlider(ss, ev) ELSE ss
        s3 == CaptureSettings(s2, ev)
    IN  IF ~ss.is_live_mode /\ ev.type = "go_live"
        THEN [ss |-> GoLive(ss), historical_data |-> NoSnapshot, rerun |-> TRUE]
        ELSE IF n = 0
        THEN [ss |-> CaptureSettings(ss, ev), historical_data |-> NoSnapshot,
              rerun |-> FALSE]
        ELSE IF n > 1 /\ ss.selected_time_index # NoIndex /\ ss.selected_time_index >= n
        THEN [ss |-> ss, historical_data |-> IndexError, rerun |-> FALSE]
        ELSE IF n > 1 /\ ev.type = "jump"
        THEN [ss |-> [s2 EXCEPT !.selected_time_index =
                                    QuickJumpTarget(ss.snapshot_times, ev.arg, now),
                                !.is_live_mode = FALSE],
              historical_data |-> NoSnapshot, rerun |-> TRUE]
        ELSE IF ev.type = "clear"
        THEN [ss |-> [s3 EXCEPT !.data_snapshots = <<>>,
                                !.snapshot_times = <<>>,
                                !.selected_time_index = NoIndex,
                                !.is_live_mode = TRUE],
              historical_data |-> NoSnapshot, rerun |-> TRUE]
        ELSE [ss |-> s3, historical_data |-> CalcHistoricalLookup(s3), rerun |-> FALSE]

\* The main analysis of gex_calculator.py: force_capture is cleared after
\* the capture, accepted or not.
calc_main_analysis(ss, historical_data, df, now) ==
    IF historical_data = IndexError
    THEN [ss |-> ss, result |-> Result("raised", "none", FALSE)]
    ELSE IF historical_data # NoSnapshot /\ ~ss.is_live_mode
    THEN [ss |-> ss, result |-> Result("historical", "none", FALSE)]
    ELSE IF df = NoSnapshot
    THEN [ss |-> ss, result |-> Result("stopped", "none", FALSE)]
    ELSE IF ss.auto_capture \/ ss.force_capture
    THEN LET c == calc_capture_snapshot(ss, df, now)
         IN  [ss |-> [c.ss EXCEPT !.force_capture = FALSE],
              result |-> Result("live",
                                IF c.accepted THEN "accepted" ELSE "rejected",
                                ss.force_capture)]
    ELSE [ss |-> ss, result |-> Result("live", "none", FALSE)]

\* One execution of the dashboard of gex_calculator.py.
CalcExecute(ev) ==
    \E d \in ClockSteps, outcome \in {"ok", "error"} :
        LET now == clock + d
            r == calc_render_time_machine(Sidebar(session_state, ev), ev, now)
            m == calc_main_analysis(r.ss, r.historical_data,
                                    fetch_data(expiry_index, now, outcome), now)
        IN  /\ now <= MaxTime
            /\ clock' = now
            /\ session_state' = IF r.rerun THEN r.ss ELSE m.ss
            /\ rerun_pending' = r.rerun
            /\ result' = IF r.rerun THEN Result("rerun", "none", FALSE) ELSE m.result
            /\ UNCHANGED <<expiry_index, accepted_at, captured_times, chain_vars, calc_vars>>

CalcRerun ==
    /\ rerun_pending
    /\ CalcExecute(Event("none", 0))

CalcRefresh ==
    /\ ~rerun_pending
    /\ CalcExecute(Event("none", 0))

CalcPressCaptureNow ==
    /\ ~rerun_pending
    /\ CalcExecute(Event("capture_now", 0))

CalcPressGoLive ==
    /\ ~rerun_pending
    /\ ~session_state.is_live_mode
    /\ CalcExecute(Event("go_live", 0))

CalcMoveSlider(i) ==
    /\ ~rerun_pending
    /\ Len(session_state.snapshot_times) > 1
    /\ i < Len(session_state.snapshot_times)
    /\ CalcExecute(Event("slider", i))

CalcPressQuickJump(minutes) ==
    /\ ~rerun_pending
    /\ Len(session_state.snapshot_times) > 1
    /\ CalcExecute(Event("jump", minutes))

CalcPressClear ==
    /\ ~rerun_pending
    /\ Len(session_state.snapshot_times) > 0
    /\ CalcExecute(Event("clear", 0))

CalcSelectInterval(minutes) ==
    /\ ~rerun_pending
    /\ minutes # session_state.capture_interval
    /\ CalcExecute(Event("set_interval", minutes))

CalcToggleAutoCapture ==
    /\ ~rerun_pending
    /\ CalcExecute(Event("toggle_auto", 0))

CalcNext ==
    \/ CalcRerun
    \/ CalcRefresh
    \/ CalcPressCaptureNow
    \/ CalcPressGoLive
    \/ \E i \in 0..SnapshotCap : CalcMoveSlider(i)
    \/ \E minutes \in QuickJumpPresets : CalcPressQuickJump(minutes)
    \/ CalcPressClear
    \/ \E minutes \in IntervalOptions : CalcSelectInterval(minutes)
    \/ CalcToggleAutoCapture

(***************************************************************************)
(* The futures price resolution chain of gex_calculator.py.  Prices are in *)
(* whole rupees.  A provider's answer is the response of its one HTTP      *)
(* request: whether the request or the decoding raised, the status code,   *)
(* and the fields of the document the code looks at.                       *)
(***************************************************************************)
\* None, where a price is expected.
NoPrice == -1
\* A JSON field, or an option leg, that the document does not have.
NoField == -1
\* In the place of a price: an exception left the function.
Raised == -2
\* An option leg that the document gives as null.
NullLeg == -3
\* float('inf'), the initial min_diff of the at-the-money scan.
Infinity == -1
\* risk_free_rate = 0.07, in percent.
RiskFreeRatePct == 7

\* The expiry the chain resolves, and another one of the same option chain.
selected_expiry == "27-Feb-2025"
other_expiry == "06-Mar-2025"

\* Python's "if price:" for a price that is None or a number.
Truthy(price) == price # NoPrice /\ price # 0

\* d.get(field, default)
FieldOr(v, default) == IF v = NoField THEN default ELSE v

_validate_price(sym, price) ==
    LET ranges == [NIFTY      |-> <<20000, 30000>>,
                   BANKNIFTY  |-> <<45000, 60000>>,
                   FINNIFTY   |-> <<20000, 28000>>,
                   MIDCPNIFTY |-> <<10000, 16000>>]
        range == IF sym \in DOMAIN ranges THEN ranges[sym] ELSE <<5000, 100000>>
    IN  range[1] < price /\ price < range[2]

\* float(contract.get('ltp', contract.get('lastPrice', 0)))
ContractPrice(contract) == FieldOr(contract.ltp, FieldOr(contract.lastPrice, 0))

\* Strategy 1.  The document is a list of contracts, or a dict with a price
\* of its own or a contracts array.
_fetch_from_derivatives_api(response, expiry_date) ==
    LET contracts == response.contracts
        matching == {i \in 1..Len(contracts) : contracts[i].expiryDate = expiry_date}
        first_matching == CHOOSE i \in matching : \A j \in matching : i <= j
    IN  IF response.raises \/ response.status_code # 200
        THEN NoPrice
        ELSE IF response.shape = "list"
        THEN IF Len(contracts) > 0 /\ contracts[1].ltp # NoField
             THEN contracts[1].ltp
             ELSE IF Len(contracts) > 0 /\ contracts[1].lastPrice # NoField
             THEN contracts[1].lastPrice
             ELSE NoPrice
        ELSE IF response.ltp # NoField
        THEN response.ltp
        ELSE IF response.lastPrice # NoField
        THEN response.lastPrice
        ELSE IF Len(contracts) > 0
        THEN IF matching # {}
             THEN ContractPrice(contracts[first_matching])
             ELSE ContractPrice(contracts[1])
        ELSE NoPrice

\* for match in matches: the first price inside the instrument's band.
RECURSIVE FirstValidMatch(_, _)
FirstValidMatch(sym, matches) ==
    IF matches = <<>>
    THEN NoPrice
    ELSE IF _validate_price(sym, Head(matches))
    THEN Head(matches)
    ELSE FirstValidMatch(sym, Tail(matches))

\* for pattern in patterns: found holds re.findall's matches, per pattern.
RECURSIVE ScanPatterns(_, _)
ScanPatterns(sym, found) ==
    IF found = <<>>
    THEN NoPrice
    ELSE LET price == FirstValidMatch(sym, Head(found))
         IN  IF price # NoPrice THEN price ELSE ScanPatterns(sym, Tail(found))

\* Strategy 2: the futures page, scraped.
_fetch_from_futures_page(sym, response) ==
    IF response.raises \/ response.status_code # 200
    THEN NoPrice
    ELSE ScanPatterns(sym, response.found)

\* Mutant: strategy 3 without its try/except.
_fetch_from_contract_api_NoExcept(response, expiry_date) ==
    IF response.raises
    THEN Raised
    ELSE IF response.status_code # 200
    THEN NoPrice
    ELSE IF response.ltp # NoField
    THEN response.ltp
    ELSE IF Len(response.contracts) > 0
    THEN FieldOr(response.contracts[1].ltp, 0)
    ELSE NoPrice

\* Strategy 3: the contract endpoint.
_fetch_from_contract_api(response, expiry_date) ==
    IF response.raises \/ response.status_code # 200
    THEN NoPrice
    ELSE IF response.ltp # NoField
    THEN response.ltp
    ELSE IF Len(response.contracts) > 0
    THEN FieldOr(response.contracts[1].ltp, 0)
    ELSE NoPrice

\* The loop of _calculate_futures_from_pcp: the item of the expiry whose
\* strike is closest to spot (the first of them on a tie), with its legs.
RECURSIVE AtmScan(_, _, _, _)
AtmScan(items, spot_price, expiry_date, best) ==
    IF items = <<>>
    THEN best
    ELSE LET item == Head(items)
             diff == Abs(item.strikePrice - spot_price)
         IN  IF item.expiryDate # expiry_date
             THEN AtmScan(Tail(items), spot_price, expiry_date, best)
             ELSE IF best.min_diff = Infinity \/ diff < best.min_diff
             THEN AtmScan(Tail(items), spot_price, expiry_date,
                          [min_diff |-> diff, atm_strike |-> item.strikePrice,
                           ce_data |-> item.CE, pe_data |-> item.PE])
             ELSE AtmScan(Tail(items), spot_price, expiry_date, best)

\* Mutant: parity from a call leg alone.
_calculate_futures_from_pcp_CallOnly(records_data, spot_price, expiry_date) ==
    LET atm == AtmScan(records_data, spot_price, expiry_date,
                       [min_diff |-> Infinity, atm_strike |-> NoField,
                        ce_data |-> NoField, pe_data |-> NoField])
    IN  IF /\ atm.atm_strike # NoField /\ atm.atm_strike # 0
           /\ atm.ce_data \notin {NoField, NullLeg}
           /\ atm.pe_data \notin {NoField, NullLeg}
           /\ atm.ce_data > 0
        THEN atm.atm_strike + (atm.ce_data - atm.pe_data)
        ELSE NoPrice

\* Strategy 4: F = K + (C - P) at the strike closest to spot.  A leg is its
\* lastPrice (0 when the leg has none), NoField when the item has no leg,
\* NullLeg when the leg is null.
_calculate_futures_from_pcp(records_data, spot_price, expiry_date) ==
    LET atm == AtmScan(records_data, spot_price, expiry_date,
                       [min_diff |-> Infinity, atm_strike |-> NoField,
                        ce_data |-> NoField, pe_data |-> NoField])
    IN  IF /\ atm.atm_strike # NoField /\ atm.atm_strike # 0
           /\ atm.ce_data \notin {NoField, NullLeg}
           /\ atm.pe_data \notin {NoField, NullLeg}
           /\ atm.ce_data > 0 /\ atm.pe_data > 0
        THEN atm.atm_strike + (atm.ce_data - atm.pe_data)
        ELSE NoPrice

\* Strategy 5: spot_price * np.exp(risk_free_rate * days_to_expiry / 365),
\* with the exponent and the growth factor in 1/10000 (second-order series,
\* rounded down).
CostOfCarry(spot_price, days_to_expiry) ==
    LET x == (RiskFreeRatePct * days_to_expiry * 100) \div 365
        growth == 10000 + x + (x * x) \div 20000
    IN  (spot_price * growth) \div 10000

(***************************************************************************)
(* fetch_and_calculate_gex_dex around the chain: the NSE session and       *)
(* option chain before it, the exposure table after it, the demo data in   *)
(* place of either.  A table row holds the strike and the two premiums;    *)
(* the exposures of a row are the subject of the table analytics below.    *)
(***************************************************************************)
\* The sidebar's "Strikes Range" slider, at its default.
strikes_range == 12

get_contract_specs(sym) ==
    LET specs == [NIFTY      |-> [lot_size |-> 25, strike_interval |-> 50],
                  BANKNIFTY  |-> [lot_size |-> 15, strike_interval |-> 100],
                  FINNIFTY   |-> [lot_size |-> 40, strike_interval |-> 50],
                  MIDCPNIFTY |-> [lot_size |-> 75, strike_interval |-> 25]]
    IN  IF sym \in DOMAIN specs THEN specs[sym] ELSE specs["NIFTY"]

\* NSEDataFetcher.initialize_session: (success, msg), here success.
initialize_session(response) ==
    IF response.raises THEN FALSE ELSE response.status_code = 200

\* NSEDataFetcher.fetch_option_chain: (data, error), here whether data came.
fetch_option_chain(response) ==
    IF response.raises
    THEN FALSE
    ELSE response.status_code = 200 /\ response.has_records

\* atm_info: the ATM strike, its premiums and their sum.
AtmInfo(atm_strike, atm_call_premium, atm_put_premium) ==
    [atm_strike |-> atm_strike,
     atm_call_premium |-> atm_call_premium,
     atm_put_premium |-> atm_put_premium,
     atm_straddle_premium |-> atm_call_premium + atm_put_premium]

Fetched(kind, df, futures_ltp, fetch_method, atm_info) ==
    [kind |-> kind, df |-> df, futures_ltp |-> futures_ltp,
     fetch_method |-> fetch_method, atm_info |-> atm_info]

\* Before the function has returned.
NotFetched == Fetched("none", <<>>, NoPrice, "", AtmInfo(NoField, 0, 0))

Row(Strike, Call_LTP, Put_LTP) ==
    [Strike |-> Strike, Call_LTP |-> Call_LTP, Put_LTP |-> Put_LTP]

\* ce.get('lastPrice', 0) or 0, for a leg that is a dict.
LegPrice(leg) == FieldOr(leg, 0)

\* round(x / interval) of Python: to the nearest, a tie to the even one.
RoundDiv(x, interval) ==
    LET q == x \div interval
        r == x % interval
    IN  IF 2 * r > interval THEN q + 1
        ELSE IF 2 * r < interval THEN q
        ELSE q + (q % 2)

\* Mutant: the rows stay in the order of the option chain.
SortByStrike_InputOrder(rows) == rows

SortByStrike(rows) == SortSeq(rows, LAMBDA a, b : a.Strike < b.Strike)

\* The rows of the demo table, for i in range(-strikes_range, strikes_range + 1);
\* the random terms of the premiums are at 0.
RECURSIVE DemoRows(_, _, _, _)
DemoRows(i, atm_strike, strike_interval, spot_price) ==
    IF i > strikes_range
    THEN <<>>
    ELSE LET strike == atm_strike + i * strike_interval
             row == IF strike < spot_price
                    THEN Row(strike, IF spot_price - strike > 5 THEN spot_price - strike ELSE 5, 1)
                    ELSE Row(strike, 1, IF strike - spot_price > 5 THEN strike - spot_price ELSE 5)
         IN  <<row>> \o DemoRows(i + 1, atm_strike, strike_interval, spot_price)

\* The ATM row of the demo table: the row of atm_strike, else the middle row.
DemoAtmInfo(df, atm_strike) ==
    LET atm_rows == SelectSeq(df, LAMBDA row : row.Strike = atm_strike)
        atm_row == IF Len(atm_rows) > 0 THEN atm_rows[1] ELSE df[Len(df) \div 2 + 1]
    IN  AtmInfo(atm_strike, atm_row.Call_LTP, atm_row.Put_LTP)

\* Mutant: the demo data under the label of the chain's floor.
_generate_demo_data_ChainLabel(sym, spot_price) ==
    LET strike_interval == get_contract_specs(sym).strike_interval
        atm_strike == RoundDiv(spot_price, strike_interval) * strike_interval
        df == SortByStrike(DemoRows(-strikes_range, atm_strike, strike_interval, spot_price))
    IN  Fetched("synthetic", df, (spot_price * 10008) \div 10000, "Cost of Carry",
                DemoAtmInfo(df, atm_strike))

\* _generate_demo_data, for the spot its random draw gave.
_generate_demo_data(sym, spot_price) ==
    LET strike_interval == get_contract_specs(sym).strike_interval
        atm_strike == RoundDiv(spot_price, strike_interval) * strike_interval
        df == SortByStrike(DemoRows(-strikes_range, atm_strike, strike_interval, spot_price))
    IN  Fetched("synthetic", df, (spot_price * 10008) \div 10000, "Demo Data",
                DemoAtmInfo(df, atm_strike))

\* The loop over records['data']: the rows of the expiry within the strikes
\* range of the futures price, one per strike, and the strike closest to it.
\* A null leg raises at its first .get.
RECURSIVE ProcessItems(_, _, _, _, _)
ProcessItems(items, futures_ltp, expiry_date, strike_interval, acc) ==
    IF items = <<>> \/ acc.raised
    THEN acc
    ELSE LET item == Head(items)
             strike == item.strikePrice
             seen == [acc EXCEPT !.processed = @ \cup {strike}]
             diff == Abs(strike - futures_ltp)
             row == Row(strike, LegPrice(item.CE), LegPrice(item.PE))
         IN  IF item.expiryDate # expiry_date
             THEN ProcessItems(Tail(items), futures_ltp, expiry_date, strike_interval, acc)
             ELSE IF strike = 0 \/ strike \in acc.processed
             THEN ProcessItems(Tail(items), futures_ltp, expiry_date, strike_interval, acc)
             ELSE IF diff > strikes_range * strike_interval
             THEN ProcessItems(Tail(items), futures_ltp, expiry_date, strike_interval, seen)
             ELSE IF item.CE = NullLeg \/ item.PE = NullLeg
             THEN [seen EXCEPT !.raised = TRUE]
             ELSE IF acc.min_diff = Infinity \/ diff < acc.min_diff
             THEN ProcessItems(Tail(items), futures_ltp, expiry_date, strike_interval,
                               [seen EXCEPT !.all_strikes = Append(@, row),
                                            !.min_diff = diff,
                                            !.atm_strike = strike,
                                            !.atm_call_premium = row.Call_LTP,
                                            !.atm_put_premium = row.Put_LTP])
             ELSE ProcessItems(Tail(items), futures_ltp, expiry_date, strike_interval,
                               [seen EXCEPT !.all_strikes = Append(@, row)])

NoStrikes ==
    [all_strikes |-> <<>>, processed |-> {}, atm_strike |-> NoField,
     atm_call_premium |-> 0, atm_put_premium |-> 0,
     min_diff |-> Infinity, raised |-> FALSE]

\* Mutant: the ATM strike is the strike of the middle row.
LiveAtmInfo_MiddleRow(acc, df) ==
    AtmInfo(df[Len(df) \div 2 + 1].Strike, acc.atm_call_premium, acc.atm_put_premium)

\* atm_info of the live table: atm_strike or the strike of the middle row.
LiveAtmInfo(acc, df) ==
    AtmInfo(IF acc.atm_strike \in {NoField, 0}
            THEN df[Len(df) \div 2 + 1].Strike
            ELSE acc.atm_strike,
            acc.atm_call_premium, acc.atm_put_premium)

\* Mutant: the processing without its try/except.
ProcessOptionChain_NoExcept(sym, records_data, futures_ltp, fetch_method, demo) ==
    LET acc == ProcessItems(records_data, futures_ltp, selected_expiry,
                            get_contract_specs(sym).strike_interval, NoStrikes)
    IN  IF acc.raised
        THEN Fetched("raised", <<>>, NoPrice, "", AtmInfo(NoField, 0, 0))
        ELSE IF acc.all_strikes = <<>>
        THEN demo
        ELSE Fetched("live", SortByStrike(acc.all_strikes), futures_ltp, fetch_method,
                     LiveAtmInfo(acc, SortByStrike(acc.all_strikes)))

\* The processing after the chain: the table, or the demo data when an
\* exception is caught or no strike is left.
ProcessOptionChain(sym, records_data, futures_ltp, fetch_method, demo) ==
    LET acc == ProcessItems(records_data, futures_ltp, selected_expiry,
                            get_contract_specs(sym).strike_interval, NoStrikes)
    IN  IF acc.raised
        THEN demo
        ELSE IF acc.all_strikes = <<>>
        THEN demo
        ELSE Fetched("live", SortByStrike(acc.all_strikes), futures_ltp, fetch_method,
                     LiveAtmInfo(acc, SortByStrike(acc.all_strikes)))

\* The spot that np.random.randn() gives the demo data (24250 + randn * 50).
DemoSpots == {24189, 24225, 24250}

ChainState(pc, futures_ltp, fetch_method, attempted) ==
    [pc |-> pc, futures_ltp |-> futures_ltp, fetch_method |-> fetch_method,
     attempted |-> attempted]

ChainIdle == ChainState("start", NoPrice, "", <<>>)

\* What a strategy's price does to the chain: returned when truthy, else on
\* to the next strategy; an exception leaves the chain.
Attempt(label, price, next) ==
    IF price = Raised
    THEN ChainState("raised", NoPrice, "", Append(chain.attempted, label))
    ELSE IF Truthy(price)
    THEN ChainState("returned", price, label, Append(chain.attempted, label))
    ELSE ChainState(next, NoPrice, chain.fetch_method, Append(chain.attempted, label))

\* return self._generate_demo_data(symbol, strikes_range)
ReturnDemoData ==
    \E spot_price \in DemoSpots :
        LET demo == _generate_demo_data(symbol, spot_price)
        IN  /\ fetched' = demo
            /\ chain' = ChainState("demo", demo.futures_ltp, demo.fetch_method, <<>>)

\* The NSE session could not be initialised.
FailSession ==
    /\ chain.pc = "start"
    /\ ~initialize_session(market.session)
    /\ ReturnDemoData
    /\ UNCHANGED <<store_vars, calc_vars, market>>

\* The option chain could not be fetched.
FailOptionChain ==
    /\ chain.pc = "start"
    /\ initialize_session(market.session)
    /\ ~fetch_option_chain(market.option_chain)
    /\ ReturnDemoData
    /\ UNCHANGED <<store_vars, calc_vars, market>>

\* fetch_and_calculate_gex_dex reads the option chain; no expiry dates or a
\* zero spot end in demo data, the price chain is never entered.
GenerateDemoData ==
    /\ chain.pc = "start"
    /\ initialize_session(market.session)
    /\ fetch_option_chain(market.option_chain)
    /\ market.expiry_dates = <<>> \/ market.spot_price = 0
    /\ ReturnDemoData
    /\ UNCHANGED <<store_vars, calc_vars, market>>

EnterChain ==
    /\ chain.pc = "start"
    /\ initialize_session(market.session)
    /\ fetch_option_chain(market.option_chain)
    /\ market.expiry_dates # <<>>
    /\ market.spot_price # 0
    /\ chain' = [chain EXCEPT !.pc = "Groww API"]
    /\ UNCHANGED <<store_vars, calc_vars, market, fetched>>

TryDerivativesApi ==
    /\ chain.pc = "Groww API"
    /\ chain' = Attempt("Groww API",
                        _fetch_from_derivatives_api(market.api, selected_expiry),
                        "Groww Page")
    /\ UNCHANGED <<store_vars, calc_vars, market, fetched>>

TryFuturesPage ==
    /\ chain.pc = "Groww Page"
    /\ chain' = Attempt("Groww Page",
                        _fetch_from_futures_page(symbol, market.page),
                        "Groww Contract")
    /\ UNCHANGED <<store_vars, calc_vars, market, fetched>>

\* The last provider strategy: when it fails too, get_futures_price returns
\* (None, "Groww fetch failed").
TryContractApi ==
    /\ chain.pc = "Groww Contract"
    /\ LET a == Attempt("Groww Contract",
                        _fetch_from_contract_api(market.contract, selected_expiry),
                        "Put-Call Parity")
       IN  chain' = IF a.pc = "Put-Call Parity"
                    THEN [a EXCEPT !.fetch_method = "Groww fetch failed"]
                    ELSE a
    /\ UNCHANGED <<store_vars, calc_vars, market, fetched>>

TryPutCallParity ==
    /\ chain.pc = "Put-Call Parity"
    /\ chain' = Attempt("Put-Call Parity",
                        _calculate_futures_from_pcp(market.records_data,
                                                    market.spot_price, selected_expiry),
                        "Cost of Carry")
    /\ UNCHANGED <<store_vars, calc_vars, market, fetched>>

\* The floor: its value is taken whatever it is.
ApplyCostOfCarry ==
    /\ chain.pc = "Cost of Carry"
    /\ chain' = ChainState("returned",
                           CostOfCarry(market.spot_price, market.days_to_expiry),
                           "Cost of Carry", Append(chain.attempted, "Cost of Carry"))
    /\ UNCHANGED <<store_vars, calc_vars, market, fetched>>

\* With the futures price resolved, the option chain is processed and the
\* function returns.
BuildExposureTable ==
    /\ chain.pc = "returned"
    /\ fetched = NotFetched
    /\ \E spot_price \in DemoSpots :
           fetched' = ProcessOptionChain(symbol, market.records_data, chain.futures_ltp,
                                         chain.fetch_method,
                                         _generate_demo_data(symbol, spot_price))
    /\ UNCHANGED <<store_vars, calc_vars, market, chain>>

ChainNext ==
    \/ FailSession
    \/ FailOptionChain
    \/ GenerateDemoData
    \/ EnterChain
    \/ TryDerivativesApi
    \/ TryFuturesPage
    \/ TryContractApi
    \/ TryPutCallParity
    \/ ApplyCostOfCarry
    \/ BuildExposureTable

(***************************************************************************)
(* The answers the chain is run against.                                   *)
(***************************************************************************)
Contract(ltp, lastPrice, expiryDate) ==
    [ltp |-> ltp, lastPrice |-> lastPrice, expiryDate |-> expiryDate]

Response(raises, status_code, shape, ltp, lastPrice, contracts) ==
    [raises |-> raises, status_code |-> status_code, shape |-> shape,
     ltp |-> ltp, lastPrice |-> lastPrice, contracts |-> contracts]

\* The request raised (timeout, connection reset, a body that is not JSON).
RequestRaises == Response(TRUE, 200, "dict", NoField, NoField, <<>>)

ApiResponses ==
    {RequestRaises,
     Response(FALSE, 503, "dict", NoField, NoField, <<>>),
     Response(FALSE, 200, "list", NoField, NoField, <<>>),
     Response(FALSE, 200, "list", NoField, NoField,
              <<Contract(24500, NoField, selected_expiry)>>),
     Response(FALSE, 200, "list", NoField, NoField,
              <<Contract(NoField, 5, selected_expiry)>>),
     Response(FALSE, 200, "dict", 35000, NoField, <<>>),
     Response(FALSE, 200, "dict", NoField, NoField,
              <<Contract(24700, NoField, other_expiry),
                Contract(NoField, NoField, selected_expiry)>>)}

Page(raises, status_code, found) ==
    [raises |-> raises, status_code |-> status_code, found |-> found]

PageResponses ==
    {Page(TRUE, 200, <<>>),
     Page(FALSE, 404, <<>>),
     Page(FALSE, 200, << <<5>>, <<>> >>),
     Page(FALSE, 200, << <<5, 24510>> >>),
     Page(FALSE, 200, << <<31000>>, <<>>, <<24515>> >>)}

ContractResponses ==
    {RequestRaises,
     Response(FALSE, 500, "dict", NoField, NoField, <<>>),
     Response(FALSE, 200, "dict", 24520, NoField, <<>>),
     Response(FALSE, 200, "dict", 19000, NoField, <<>>),
     Response(FALSE, 200, "dict", NoField, NoField,
              <<Contract(NoField, NoField, selected_expiry)>>)}

Item(expiryDate, strikePrice, CE, PE) ==
    [expiryDate |-> expiryDate, strikePrice |-> strikePrice, CE |-> CE, PE |-> PE]

\* records['data'] of the option chain.
OptionChains ==
    {<<>>,
     <<Item(selected_expiry, 24450, 120, 80), Item(selected_expiry, 24500, 90, 100)>>,
     <<Item(selected_expiry, 24500, 90, NoField)>>,
     <<Item(selected_expiry, 24500, 90, 0)>>,
     <<Item(selected_expiry, 24460, 0, 50), Item(selected_expiry, 24500, 90, 100)>>,
     <<Item(other_expiry, 24480, 10, 10), Item(selected_expiry, 24500, 6000, 10)>>,
     <<Item(selected_expiry, 24450, 120, 80), Item(selected_expiry, 24500, NullLeg, 100),
       Item(selected_expiry, 24450, 1, 1), Item(selected_expiry, 0, 1, 1),
       Item(selected_expiry, 23000, 1500, 2)>>,
     <<Item(selected_expiry, 24550, 60, 130), Item(other_expiry, 24500, 9, 9),
       Item(selected_expiry, 24450, 120, 80), Item(selected_expiry, 24550, 1, 1),
       Item(selected_expiry, 0, 1, 1), Item(selected_expiry, 23000, 1500, 2),
       Item(selected_expiry, 25100, 3, 610)>>}

SpotPrices == {0, 24480}

DaysToExpiry == {1, 7}

NseResponse(raises, status_code, has_records) ==
    [raises |-> raises, status_code |-> status_code, has_records |-> has_records]

NseOk == NseResponse(FALSE, 200, TRUE)

\* The answers with which the session or the option chain fails.
NseFailures ==
    {NseResponse(TRUE, 200, TRUE), NseResponse(FALSE, 403, TRUE),
     NseResponse(FALSE, 200, FALSE)}

\* The markets in which NSE answers, with every answer of the providers.
ChainMarkets ==
    [spot_price : SpotPrices, days_to_expiry : DaysToExpiry, records_data : OptionChains,
     api : ApiResponses, page : PageResponses, contract : ContractResponses,
     session : {NseOk}, option_chain : {NseOk},
     expiry_dates : {<<selected_expiry, other_expiry>>}]

\* The markets in which NSE fails or lists no expiry, the providers silent.
FaultMarkets ==
    [spot_price : SpotPrices, days_to_expiry : DaysToExpiry, records_data : OptionChains,
     api : {RequestRaises}, page : {Page(TRUE, 200, <<>>)}, contract : {RequestRaises},
     session : {NseOk} \cup NseFailures, option_chain : {NseOk} \cup NseFailures,
     expiry_dates : {<<>>, <<selected_expiry, other_expiry>>}]

Markets == ChainMarkets \cup FaultMarkets

\* The answers of one call, before it is made.
NoMarket ==
    [spot_price |-> 0, days_to_expiry |-> 1, records_data |-> <<>>,
     api |-> RequestRaises, page |-> Page(TRUE, 200, <<>>), contract |-> RequestRaises,
     session |-> NseOk, option_chain |-> NseOk, expiry_dates |-> <<>>]

(***************************************************************************)
(* BlackScholesCalculator.  S and K are in rupees, T in days of a 365-day  *)
(* year, sigma and r in percent.  The arithmetic is fixed-point: d1 in     *)
(* 1/1000, norm.pdf in 1/10^6, norm.cdf and the deltas in 1/10^4, gamma in *)
(* 1/10^7, vega in 1/100.                                                  *)
(***************************************************************************)
RECURSIVE Newton(_, _)
Newton(x, g) ==
    LET h == (g + x \div g) \div 2
    IN  IF h >= g THEN g ELSE Newton(x, h)

\* The integer square root.
ISqrt(x) == IF x <= 0 THEN 0 ELSE Newton(x, x)

\* np.sqrt(T), in 1/10^4.
SqrtT(T) == ISqrt((100000000 \div 365) * T)

\* sigma * np.sqrt(T), in 1/10^4.
SigmaSqrtT(T, sigma) == (sigma * SqrtT(T)) \div 100

\* np.log(S / K), in 1/10^4, by the series of the inverse hyperbolic tangent.
Log(S, K) ==
    LET y == (10000 * (S - K)) \div (S + K)
    IN  2 * y + (2 * y * y * y) \div 300000000

\* norm.pdf(d1): exp(-d1^2 / 2) / sqrt(2 pi), the exponential by its series
\* to the cubic term.
NormPdf(d1) ==
    LET d == IF d1 > 5000 THEN 5000 ELSE IF d1 < -5000 THEN -5000 ELSE d1
        q == (d * d) \div 2000
    IN  (398942 * 1000)
            \div (1000 + q + (q * q) \div 2000 + (((q * q) \div 1000) * q) \div 6000)

\* norm.cdf(d1), by (1 + d1 / sqrt(d1^2 + pi/2)) / 2.
NormCdf(d1) ==
    LET d == IF d1 > 5000 THEN 5000 ELSE IF d1 < -5000 THEN -5000 ELSE d1
    IN  5000 + (5000 * d) \div ISqrt(d * d + 1570796)

calculate_d1(S, K, T, r, sigma) ==
    IF T <= 0 \/ sigma <= 0 \/ S <= 0 \/ K <= 0
    THEN 0
    ELSE (1000 * (Log(S, K) + ((200 * r + sigma * sigma) * T) \div 730))
             \div SigmaSqrtT(T, sigma)

\* n_prime_d1 / (S * sigma * np.sqrt(T)); numpy divides by zero to infinity.
GammaOf(d1, S, T, sigma) ==
    LET den == (S * SigmaSqrtT(T, sigma)) \div 100
    IN  IF den = 0 THEN Infinity ELSE (NormPdf(d1) * 1000) \div den

\* Mutant: gamma under the guard of calculate_d2, which tests T and sigma only.
calculate_gamma_GuardOfD2(S, K, T, r, sigma) ==
    IF T <= 0 \/ sigma <= 0
    THEN 0
    ELSE GammaOf(calculate_d1(S, K, T, r, sigma), S, T, sigma)

calculate_gamma(S, K, T, r, sigma) ==
    IF T <= 0 \/ sigma <= 0 \/ S <= 0 \/ K <= 0
    THEN 0
    ELSE GammaOf(calculate_d1(S, K, T, r, sigma), S, T, sigma)

calculate_call_delta(S, K, T, r, sigma) ==
    IF T <= 0 \/ sigma <= 0 \/ S <= 0 \/ K <= 0
    THEN 0
    ELSE NormCdf(calculate_d1(S, K, T, r, sigma))

calculate_put_delta(S, K, T, r, sigma) ==
    IF T <= 0 \/ sigma <= 0 \/ S <= 0 \/ K <= 0
    THEN 0
    ELSE NormCdf(calculate_d1(S, K, T, r, sigma)) - 10000

calculate_vega(S, K, T, r, sigma) ==
    IF T <= 0 \/ sigma <= 0 \/ S <= 0 \/ K <= 0
    THEN 0
    ELSE (((S * (NormPdf(calculate_d1(S, K, T, r, sigma)) \div 1000)) \div 1000)
              * SqrtT(T)) \div 10000

\* The inputs of one option: in and out of the domain of the model.
UnderlyingPrices == {-100, 0, 24000, 24500}
StrikePrices == {-50, 0, 24000, 24500}
ExpiryDays == {-1, 0, 7, 30}
VolatilityPcts == {-5, 0, 5, 15}

GreekNames == {"gamma", "call_delta", "put_delta", "vega"}

NoGreeks == [S |-> 0, K |-> 0, T |-> 0, sigma |-> 0, out |-> <<>>]

\* The Greek computed for the inputs joins those computed before.
Computed(name, value) ==
    /\ name \notin DOMAIN greeks.out
    /\ greeks' = [greeks EXCEPT !.out = (name :> value) @@ @]

CalculateGamma ==
    /\ Computed("gamma",
                calculate_gamma(greeks.S, greeks.K, greeks.T, RiskFreeRatePct, greeks.sigma))
    /\ UNCHANGED <<store_vars, chain_vars, flow, race>>

CalculateCallDelta ==
    /\ Computed("call_delta",
                calculate_call_delta(greeks.S, greeks.K, greeks.T, RiskFreeRatePct,
                                     greeks.sigma))
    /\ UNCHANGED <<store_vars, chain_vars, flow, race>>

CalculatePutDelta ==
    /\ Computed("put_delta",
                calculate_put_delta(greeks.S, greeks.K, greeks.T, RiskFreeRatePct,
                                    greeks.sigma))
    /\ UNCHANGED <<store_vars, chain_vars, flow, race>>

CalculateVega ==
    /\ Computed("vega",
                calculate_vega(greeks.S, greeks.K, greeks.T, RiskFreeRatePct, greeks.sigma))
    /\ UNCHANGED <<store_vars, chain_vars, flow, race>>

GreeksNext ==
    \/ CalculateGamma
    \/ CalculateCallDelta
    \/ CalculatePutDelta
    \/ CalculateVega

(***************************************************************************)
(* The analytics on an exposure table: the hedging pressure column, the    *)
(* gamma flip zones, the flow metrics and their bias labels.  A row holds  *)
(* the strike and its net exposures, in whole billions; the pressure is in *)
(* 1/100 of a percent and combined_signal in halves.  Labels are the       *)
(* source's without their emoji, the arrow of flip_type written "->".      *)
(***************************************************************************)
TableRow(Strike, Net_GEX_B, Net_DEX_B) ==
    [Strike |-> Strike, Net_GEX_B |-> Net_GEX_B, Net_DEX_B |-> Net_DEX_B]

RECURSIVE SumOf(_, _)
SumOf(rows, column) ==
    IF rows = <<>> THEN 0 ELSE Head(rows)[column] + SumOf(Tail(rows), column)

\* df[column].abs().max(); the NaN of an empty column compares as 0 does.
RECURSIVE AbsMax(_, _)
AbsMax(rows, column) ==
    IF rows = <<>>
    THEN 0
    ELSE LET rest == AbsMax(Tail(rows), column)
             this == Abs(Head(rows)[column])
         IN  IF this > rest THEN this ELSE rest

\* Mutant: the first row, not the largest, scales the pressure.
HedgingPressure_FirstRow(df) ==
    LET max_gex == IF df = <<>> THEN 0 ELSE Abs(df[1].Net_GEX_B)
    IN  [i \in 1..Len(df) |->
            IF max_gex > 0 THEN (df[i].Net_GEX_B * 10000) \div max_gex ELSE 0]

\* df['Hedging_Pressure'] = (df['Net_GEX_B'] / max_gex * 100) if max_gex > 0 else 0
HedgingPressure(df) ==
    LET max_gex == AbsMax(df, "Net_GEX_B")
    IN  [i \in 1..Len(df) |->
            IF max_gex > 0 THEN (df[i].Net_GEX_B * 10000) \div max_gex ELSE 0]

Zone(lower, upper, flip_type) ==
    [lower_strike |-> lower.Strike, upper_strike |-> upper.Strike,
     flip_type |-> flip_type,
     gex_below |-> lower.Net_GEX_B, gex_above |-> upper.Net_GEX_B]

\* Mutant: only the flips from positive to negative are detected.
RECURSIVE FlipZones_DownOnly(_)
FlipZones_DownOnly(df_sorted) ==
    IF Len(df_sorted) < 2
    THEN <<>>
    ELSE LET current_gex == df_sorted[1].Net_GEX_B
             next_gex == df_sorted[2].Net_GEX_B
             rest == FlipZones_DownOnly(Tail(df_sorted))
         IN  IF current_gex > 0 /\ next_gex < 0
             THEN <<Zone(df_sorted[1], df_sorted[2], "DAMPENING -> AMPLIFYING")>> \o rest
             ELSE rest

\* Mutant: a zero counts as a negative value.
RECURSIVE FlipZones_ZeroIsNegative(_)
FlipZones_ZeroIsNegative(df_sorted) ==
    IF Len(df_sorted) < 2
    THEN <<>>
    ELSE LET current_gex == df_sorted[1].Net_GEX_B
             next_gex == df_sorted[2].Net_GEX_B
             rest == FlipZones_ZeroIsNegative(Tail(df_sorted))
         IN  IF (current_gex > 0 /\ next_gex <= 0) \/ (current_gex <= 0 /\ next_gex > 0)
             THEN <<Zone(df_sorted[1], df_sorted[2],
                         IF current_gex > 0
                         THEN "DAMPENING -> AMPLIFYING"
                         ELSE "AMPLIFYING -> DAMPENING")>> \o rest
             ELSE rest

\* The loop of detect_gamma_flip_zones over the adjacent rows.
RECURSIVE FlipZones(_)
FlipZones(df_sorted) ==
    IF Len(df_sorted) < 2
    THEN <<>>
    ELSE LET current_gex == df_sorted[1].Net_GEX_B
             next_gex == df_sorted[2].Net_GEX_B
             rest == FlipZones(Tail(df_sorted))
         IN  IF (current_gex > 0 /\ next_gex < 0) \/ (current_gex < 0 /\ next_gex > 0)
             THEN <<Zone(df_sorted[1], df_sorted[2],
                         IF current_gex > 0
                         THEN "DAMPENING -> AMPLIFYING"
                         ELSE "AMPLIFYING -> DAMPENING")>> \o rest
             ELSE rest

detect_gamma_flip_zones(df) == FlipZones(SortByStrike(df))

\* df.drop_duplicates(subset=['Strike']): the first row of each strike.
RECURSIVE DropDuplicates(_, _)
DropDuplicates(rows, seen) ==
    IF rows = <<>>
    THEN <<>>
    ELSE IF Head(rows).Strike \in seen
    THEN DropDuplicates(Tail(rows), seen)
    ELSE <<Head(rows)>> \o DropDuplicates(Tail(rows), seen \cup {Head(rows).Strike})

\* The window of the flow metrics: the 5 closest, the 5 next above or below.
NearCount == 5

head(rows, n) == SubSeq(rows, 1, IF Len(rows) < n THEN Len(rows) ELSE n)

\* Mutant: the first n rows, not the last n.
tail_FromTop(rows, n) == head(rows, n)

tail(rows, n) == SubSeq(rows, IF Len(rows) < n THEN 1 ELSE Len(rows) - n + 1, Len(rows))

\* Mutant: the first n rows in strike order, whatever their distance.
nsmallest_StrikeOrder(rows, n, futures_ltp) == head(rows, n)

\* rows.nsmallest(n, 'Dist') with Dist = abs(Strike - futures_ltp): the rows
\* in ascending Dist, rows of equal Dist in their order in rows
\* (keep='first'), cut to n.
nsmallest(rows, n, futures_ltp) ==
    LET Dist(i) == Abs(rows[i].Strike - futures_ltp)
        Rank(i) == 1 + Cardinality({j \in 1..Len(rows) :
                         Dist(j) < Dist(i) \/ (Dist(j) = Dist(i) /\ j < i)})
    IN  [r \in 1..(IF Len(rows) < n THEN Len(rows) ELSE n) |->
            rows[CHOOSE i \in 1..Len(rows) : Rank(i) = r]]

\* Mutant: the strong band includes its threshold.
get_dex_bias_Inclusive(val) ==
    IF val >= 50 THEN "STRONG BULLISH"
    ELSE IF val > 0 THEN "BULLISH"
    ELSE IF val <= -50 THEN "STRONG BEARISH"
    ELSE IF val < 0 THEN "BEARISH"
    ELSE "NEUTRAL"

get_gex_bias(val) ==
    IF val > 50 THEN "STRONG VOL DAMPENING"
    ELSE IF val > 0 THEN "VOL DAMPENING"
    ELSE IF val < -50 THEN "STRONG VOL AMPLIFYING"
    ELSE IF val < 0 THEN "VOL AMPLIFYING"
    ELSE "NEUTRAL"

get_dex_bias(val) ==
    IF val > 50 THEN "STRONG BULLISH"
    ELSE IF val > 0 THEN "BULLISH"
    ELSE IF val < -50 THEN "STRONG BEARISH"
    ELSE IF val < 0 THEN "BEARISH"
    ELSE "NEUTRAL"

\* Mutant: the DEX decides wherever it is beyond 30, whatever the GEX.
get_combined_bias_DexFirst(gex_val, dex_val) ==
    IF dex_val > 30 THEN "BULLISH BIAS"
    ELSE IF dex_val < -30 THEN "BEARISH BIAS"
    ELSE IF gex_val > 50
    THEN IF dex_val > 20 THEN "DAMPENING + BULLISH"
         ELSE IF dex_val < -20 THEN "DAMPENING + BEARISH"
         ELSE "VOL DAMPENING"
    ELSE IF gex_val < -50
    THEN IF dex_val > 20 THEN "AMPLIFYING + BULLISH"
         ELSE IF dex_val < -20 THEN "AMPLIFYING + BEARISH"
         ELSE "VOL AMPLIFYING"
    ELSE "NEUTRAL"

get_combined_bias(gex_val, dex_val) ==
    IF gex_val > 50
    THEN IF dex_val > 20 THEN "DAMPENING + BULLISH"
         ELSE IF dex_val < -20 THEN "DAMPENING + BEARISH"
         ELSE "VOL DAMPENING"
    ELSE IF gex_val < -50
    THEN IF dex_val > 20 THEN "AMPLIFYING + BULLISH"
         ELSE IF dex_val < -20 THEN "AMPLIFYING + BEARISH"
         ELSE "VOL AMPLIFYING"
    ELSE IF dex_val > 30 THEN "BULLISH BIAS"
         ELSE IF dex_val < -30 THEN "BEARISH BIAS"
         ELSE "NEUTRAL"

calculate_dual_gex_dex_flow(df, futures_ltp) ==
    LET df_unique == SortByStrike(DropDuplicates(df, {}))
        pos_gex == nsmallest(SelectSeq(df_unique, LAMBDA row : row.Net_GEX_B > 0),
                             NearCount, futures_ltp)
        neg_gex == nsmallest(SelectSeq(df_unique, LAMBDA row : row.Net_GEX_B < 0),
                             NearCount, futures_ltp)
        gex_near_pos == SumOf(pos_gex, "Net_GEX_B")
        gex_near_neg == SumOf(neg_gex, "Net_GEX_B")
        gex_near_total == gex_near_pos + gex_near_neg
        above == head(SelectSeq(df_unique, LAMBDA row : row.Strike > futures_ltp), NearCount)
        below == tail(SelectSeq(df_unique, LAMBDA row : row.Strike < futures_ltp), NearCount)
        dex_near_pos == SumOf(above, "Net_DEX_B")
        dex_near_neg == SumOf(below, "Net_DEX_B")
        dex_near_total == dex_near_pos + dex_near_neg
    IN  [gex_near_positive |-> gex_near_pos,
         gex_near_negative |-> gex_near_neg,
         gex_near_total |-> gex_near_total,
         gex_total_all |-> SumOf(df_unique, "Net_GEX_B"),
         gex_near_bias |-> get_gex_bias(gex_near_total),
         dex_near_positive |-> dex_near_pos,
         dex_near_negative |-> dex_near_neg,
         dex_near_total |-> dex_near_total,
         dex_total_all |-> SumOf(df_unique, "Net_DEX_B"),
         dex_near_bias |-> get_dex_bias(dex_near_total),
         combined_signal |-> gex_near_total + dex_near_total,
         combined_bias |-> get_combined_bias(gex_near_total, dex_near_total)]

\* The exposures of a row: on, at and either side of each threshold once
\* summed.
NetGexValues == {-51, -50, 0, 50, 51}
NetDexValues == {-51, -30, -20, -1, 0, 1, 20, 30, 51}
BookGexValues == {-50, 0, 51}

\* Two strikes with every pair of exposures, the futures price between the
\* strikes or on the upper one.
PairTables ==
    {[df |-> <<TableRow(24450, g[1], d[1]), TableRow(24550, g[2], d[2])>>,
      futures_ltp |-> f, out |-> <<>>] :
        g \in NetGexValues \X NetGexValues, d \in NetDexValues \X NetDexValues,
        f \in {24500, 24550}}

\* Four strikes in the order of the option chain, every book of signs.
BookTables ==
    {[df |-> <<TableRow(24400, g[1], 20), TableRow(24450, g[2], -20),
               TableRow(24500, g[3], 1), TableRow(24550, g[4], 30)>>,
      futures_ltp |-> 24480, out |-> <<>>] :
        g \in BookGexValues \X BookGexValues \X BookGexValues \X BookGexValues}

\* Seven strikes and a second row of one of them, six strikes to one side of
\* the futures price or three to each side of a strike the price sits on.
\* The size of each exposure tells the strike: a sum tells its rows.
WideStrikes == <<24350, 24400, 24450, 24500, 24550, 24600, 24650>>
WideGex == <<1, 2, 4, 8, 16, 32, 64>>
WideDex == <<3, -5, 9, -17, 33, -65, 129>>
WideSigns == {-1, 0, 1}

WideTables ==
    {[df |-> [i \in 1..7 |-> TableRow(WideStrikes[i], g[i] * WideGex[i], WideDex[i])]
                 \o <<TableRow(24400, 128, 257)>>,
      futures_ltp |-> f, out |-> <<>>] :
        g \in [1..7 -> WideSigns], f \in {24360, 24500, 24650}}

NoFlow == [df |-> <<>>, futures_ltp |-> 0, out |-> <<>>]

Analysed(name, value) ==
    /\ name \notin DOMAIN flow.out
    /\ flow' = [flow EXCEPT !.out = (name :> value) @@ @]

AddHedgingPressure ==
    /\ Analysed("Hedging_Pressure", HedgingPressure(flow.df))
    /\ UNCHANGED <<store_vars, chain_vars, greeks, race>>

DetectGammaFlipZones ==
    /\ Analysed("gamma_flip_zones", detect_gamma_flip_zones(flow.df))
    /\ UNCHANGED <<store_vars, chain_vars, greeks, race>>

CalculateFlow ==
    /\ Analysed("flow_metrics", calculate_dual_gex_dex_flow(flow.df, flow.futures_ltp))
    /\ UNCHANGED <<store_vars, chain_vars, greeks, race>>

FlowNext ==
    \/ AddHedgingPressure
    \/ DetectGammaFlipZones
    \/ CalculateFlow

(***************************************************************************)
(* capture_snapshot of streamlit_app.py statement by statement, called     *)
(* twice on one ConfigKey whose series exists.  Each call holds its own    *)
(* now and oldest; the series and the gate's fields are shared.  When the  *)
(* calls are serialized a call begins only while the other is not under    *)
(* way.                                                                    *)
(***************************************************************************)
Calls == {1, 2}

\* now = datetime.now(ist).replace(microsecond=0): whole seconds, so two calls
\* can read the same now.
RaceNows == {MaxTime - 180, MaxTime}

Call(pc, now, oldest) == [pc |-> pc, now |-> now, oldest |-> oldest]

\* A series filled to the cap, a capture every 3 minutes.
FullSeries ==
    [times |-> [i \in 1..SnapshotCap |-> 180 * i],
     data  |-> [t \in {180 * i : i \in 1..SnapshotCap} |-> 0]]

\* A series whose newest entry is of the second in which a call may read its
\* now.
RecentSeries ==
    [times |-> <<MaxTime - 360, MaxTime - 180>>,
     data  |-> [t \in {MaxTime - 360, MaxTime - 180} |-> 0]]

Underway(call) == call.pc \notin {"idle", "returned", "rejected"}

\* Mutant: the oldest time is read, not popped.
PopOldest_Peek(times) == [oldest |-> Head(times), times |-> times]

\* oldest = config['times'].pop(0)
PopOldest(times) == [oldest |-> Head(times), times |-> Tail(times)]

\* now = datetime.now(ist).replace(microsecond=0)
RaceBegin(c) ==
    /\ race.call[c].pc = "idle"
    /\ race.serialized => \A other \in Calls : ~Underway(race.call[other])
    /\ \E now \in RaceNows :
           race' = [race EXCEPT !.call[c] = Call("gate", now, NoTime)]
    /\ UNCHANGED <<store_vars, chain_vars, greeks, flow>>

\* The interval gate.
RaceGate(c) ==
    /\ race.call[c].pc = "gate"
    /\ race' = [race EXCEPT !.call[c].pc =
                   IF CaptureRejected(race, race.call[c].now) THEN "rejected" ELSE "store"]
    /\ UNCHANGED <<store_vars, chain_vars, greeks, flow>>

\* config['data'][now] = {...}
RaceStore(c) ==
    /\ race.call[c].pc = "store"
    /\ race' = [race EXCEPT !.data = DictPut(@, race.call[c].now, c),
                            !.call[c].pc = "test"]
    /\ UNCHANGED <<store_vars, chain_vars, greeks, flow>>

\* Mutant: now is appended whether or not it is in the list.
RaceTest_AlwaysAppend(c) ==
    /\ race.call[c].pc = "test"
    /\ race' = [race EXCEPT !.call[c].pc = "append"]
    /\ UNCHANGED <<store_vars, chain_vars, greeks, flow>>

\* if now not in config['times']:
RaceTest(c) ==
    /\ race.call[c].pc = "test"
    /\ race' = [race EXCEPT !.call[c].pc =
                   IF InList(race.times, race.call[c].now) THEN "mark" ELSE "append"]
    /\ UNCHANGED <<store_vars, chain_vars, greeks, flow>>

\* config['times'].append(now)
RaceAppend(c) ==
    /\ race.call[c].pc = "append"
    /\ race' = [race EXCEPT !.times = Append(@, race.call[c].now),
                            !.call[c].pc = "sort"]
    /\ UNCHANGED <<store_vars, chain_vars, greeks, flow>>

\* config['times'].sort()
RaceSort(c) ==
    /\ race.call[c].pc = "sort"
    /\ race' = [race EXCEPT !.times = ListSort(@),
                            !.call[c].pc = "mark"]
    /\ UNCHANGED <<store_vars, chain_vars, greeks, flow>>

\* last_capture_time = now; force_capture = False
RaceMark(c) ==
    /\ race.call[c].pc = "mark"
    /\ race' = [race EXCEPT !.last_capture_time = race.call[c].now,
                            !.force_capture = FALSE,
                            !.call[c].pc = "limit"]
    /\ UNCHANGED <<store_vars, chain_vars, greeks, flow>>

\* while len(config['times']) > 500: oldest = config['times'].pop(0)
RaceLimit(c) ==
    /\ race.call[c].pc = "limit"
    /\ IF Len(race.times) > SnapshotCap
       THEN LET popped == PopOldest(race.times)
            IN  race' = [race EXCEPT !.times = popped.times,
                                     !.call[c].oldest = popped.oldest,
                                     !.call[c].pc = "pop"]
       ELSE race' = [race EXCEPT !.call[c].pc = "returned"]
    /\ UNCHANGED <<store_vars, chain_vars, greeks, flow>>

\* config['data'].pop(oldest, None)
RacePop(c) ==
    /\ race.call[c].pc = "pop"
    /\ race' = [race EXCEPT !.data = DictPop(@, race.call[c].oldest),
                            !.call[c].pc = "limit"]
    /\ UNCHANGED <<store_vars, chain_vars, greeks, flow>>

RaceNext ==
    \E c \in Calls :
        \/ RaceBegin(c)
        \/ RaceGate(c)
        \/ RaceStore(c)
        \/ RaceTest(c)
        \/ RaceAppend(c)
        \/ RaceSort(c)
        \/ RaceMark(c)
        \/ RaceLimit(c)
        \/ RacePop(c)

NoRace ==
    [serialized |-> TRUE, times |-> <<>>, data |-> <<>>, last_capture_time |-> NoTime,
     capture_interval |-> 3, force_capture |-> FALSE,
     call |-> [c \in Calls |-> Call("idle", NoTime, NoTime)],
     initial |-> EmptyConfig]

CalcAtRest ==
    /\ greeks = NoGreeks
    /\ flow = NoFlow
    /\ race = NoRace

Init ==
    /\ market = NoMarket
    /\ chain = ChainIdle
    /\ fetched = NotFetched
    /\ CalcAtRest
    /\ session_state = SessionDefaults
    /\ expiry_index = 0
    /\ clock = 0
    /\ rerun_pending = FALSE
    /\ result = Idle
    /\ accepted_at = [k \in ConfigKeys |-> NoTime]
    /\ captured_times = [k \in ConfigKeys |-> {}]

Next ==
    \/ Rerun
    \/ Refresh
    \/ \E e \in ExpiryIndexes : SelectExpiry(e)
    \/ PressCaptureNow
    \/ PressGoLive
    \/ \E i \in 0..SnapshotCap : MoveSlider(i)
    \/ \E minutes \in QuickJumpPresets : PressQuickJump(minutes)
    \/ PressClear
    \/ \E minutes \in IntervalOptions : SelectInterval(minutes)
    \/ ToggleAutoCapture

Spec == Init /\ [][Next]_vars

\* One call of fetch_and_calculate_gex_dex against each of the markets.
ChainInit ==
    /\ market \in Markets
    /\ chain = ChainIdle
    /\ fetched = NotFetched
    /\ CalcAtRest
    /\ session_state = SessionDefaults
    /\ expiry_index = 0
    /\ clock = 0
    /\ rerun_pending = FALSE
    /\ result = Idle
    /\ accepted_at = [k \in ConfigKeys |-> NoTime]
    /\ captured_times = [k \in ConfigKeys |-> {}]

SpecChain == ChainInit /\ [][ChainNext]_vars

\* The dashboard of gex_calculator.py, from its session defaults.
CalcInit ==
    /\ session_state = CalcSessionDefaults
    /\ market = NoMarket
    /\ chain = ChainIdle
    /\ fetched = NotFetched
    /\ CalcAtRest
    /\ expiry_index = 0
    /\ clock = 0
    /\ rerun_pending = FALSE
    /\ result = Idle
    /\ accepted_at = [k \in ConfigKeys |-> NoTime]
    /\ captured_times = [k \in ConfigKeys |-> {}]

SpecCalc == CalcInit /\ [][CalcNext]_vars

\* dashboard_with_database.py starts from the same session defaults.
SpecDb == Init /\ [][DbNext]_vars

\* The dashboard and the chain at rest.
AppAtRest ==
    /\ market = NoMarket
    /\ chain = ChainIdle
    /\ fetched = NotFetched
    /\ session_state = SessionDefaults
    /\ expiry_index = 0
    /\ clock = 0
    /\ rerun_pending = FALSE
    /\ result = Idle
    /\ accepted_at = [k \in ConfigKeys |-> NoTime]
    /\ captured_times = [k \in ConfigKeys |-> {}]

\* The four Greeks of one option, for each combination of inputs.
GreeksInit ==
    /\ AppAtRest
    /\ flow = NoFlow
    /\ race = NoRace
    /\ greeks \in [S : UnderlyingPrices, K : StrikePrices, T : ExpiryDays,
                    sigma : VolatilityPcts, out : {<<>>}]

SpecGreeks == GreeksInit /\ [][GreeksNext]_vars

\* The analytics of one exposure table, for each table.
FlowInit ==
    /\ AppAtRest
    /\ greeks = NoGreeks
    /\ race = NoRace
    /\ flow \in PairTables \cup BookTables

SpecFlow == FlowInit /\ [][FlowNext]_vars

\* calculate_dual_gex_dex_flow on books wider than its window of 5, a strike
\* given twice: the function de-duplicates and sorts for itself.
WideInit ==
    /\ AppAtRest
    /\ greeks = NoGreeks
    /\ race = NoRace
    /\ flow \in WideTables \cup BookTables

WideNext == CalculateFlow

SpecWide == WideInit /\ [][WideNext]_vars

\* Two calls of capture_snapshot on a key whose series is empty, full, or
\* ends in the second of a call, serialized or not.  race.initial keeps the
\* series the calls started from (history).
RaceInit ==
    /\ AppAtRest
    /\ greeks = NoGreeks
    /\ flow = NoFlow
    /\ \E serialized \in BOOLEAN, force_capture \in BOOLEAN,
          series \in {EmptyConfig, FullSeries, RecentSeries} :
           race = [NoRace EXCEPT !.serialized = serialized,
                                 !.initial = series,
                                 !.force_capture = force_capture,
                                 !.times = series.times,
                                 !.data = series.data,
                                 !.last_capture_time =
                                     IF series.times = <<>>
                                     THEN NoTime
                                     ELSE series.times[Len(series.times)]]

SpecRace == RaceInit /\ [][RaceNext]_vars

(***************************************************************************)
(* Properties of the snapshot store of streamlit_app.py.                   *)
(***************************************************************************)
StoredKeys == DOMAIN session_state.snapshots_by_config

CurrentKey == get_config_key(symbol, expiry_index)

\* The series of a key (empty when the key has none yet).
SeriesOf(k) ==
    IF k \in StoredKeys THEN session_state.snapshots_by_config[k] ELSE EmptyConfig

SeqToSet(seq) == {seq[i] : i \in 1..Len(seq)}

StrictlyIncreasing(seq) == \A i \in 1..(Len(seq) - 1) : seq[i] < seq[i + 1]

\* The last n entries of seq (all of it when it is shorter).
LastN(seq, n) == IF Len(seq) <= n THEN seq ELSE SubSeq(seq, Len(seq) - n + 1, Len(seq))

\* The elements of a set of numbers, ascending.
RECURSIVE Ascending(_)
Ascending(S) ==
    IF S = {}
    THEN <<>>
    ELSE LET m == CHOOSE x \in S : \A y \in S : x <= y
         IN  <<m>> \o Ascending(S \ {m})

CaptureCalled == result.captured \in {"accepted", "rejected"}

\* C1: the capture gate is per ConfigKey: a capture is rejected only when
\* the last accepted capture for the SAME key is less than capture_interval
\* minutes old (so the first capture for a key is never rejected).
C1_GateIsPerKey ==
    result.captured = "rejected" =>
        /\ accepted_at[CurrentKey] # NoTime
        /\ clock - accepted_at[CurrentKey] < session_state.capture_interval * 60

\* C2: a capture made while force_capture is set is accepted whatever the
\* elapsed time: the snapshot is stored in the key's series under the current
\* timestamp, last_capture_time becomes that timestamp and force_capture is
\* cleared.
C2_ForcedCaptureAccepted ==
    (CaptureCalled /\ result.forced) =>
        /\ result.captured = "accepted"
        /\ CurrentKey \in StoredKeys
        /\ InList(SeriesOf(CurrentKey).times, clock)
        /\ clock \in DOMAIN SeriesOf(CurrentKey).data
        /\ SeriesOf(CurrentKey).data[clock] = fetch_data(expiry_index, clock, "ok")
        /\ session_state.last_capture_time = clock
        /\ ~session_state.force_capture

\* A forced capture was accepted although the previous snapshot of the same
\* series is less than capture_interval minutes old.
C2_Witness ==
    LET times == SeriesOf(CurrentKey).times
    IN  /\ CaptureCalled /\ result.forced /\ result.captured = "accepted"
        /\ Len(times) >= 2
        /\ times[Len(times)] = clock
        /\ clock - times[Len(times) - 1] < session_state.capture_interval * 60

\* C3: without force override, a capture attempted less than capture_interval
\* minutes after the last accepted capture returns false and changes neither
\* the series (times and data), nor the set of keys, nor last_capture_time;
\* a capture with no previous accepted capture, or with the interval elapsed,
\* is accepted.
C3_GateAndFrame ==
    [][LET called == result'.captured \in {"accepted", "rejected"}
           first == session_state.last_capture_time = NoTime
           elapsed == clock' - session_state.last_capture_time
           interval == session_state'.capture_interval * 60
       IN  /\ (called /\ ~result'.forced /\ ~first /\ elapsed < interval)
                  => result'.captured = "rejected"
           /\ result'.captured = "rejected"
                  => /\ session_state'.snapshots_by_config = session_state.snapshots_by_config
                     /\ session_state'.last_capture_time = session_state.last_capture_time
                     /\ ~first /\ elapsed < interval /\ ~result'.forced
           /\ (called /\ (first \/ elapsed >= interval))
                  => result'.captured = "accepted"]_vars

\* A capture was rejected some minutes after the capture before it: the
\* series still holds the one snapshot of that capture.
C3_Witness ==
    /\ result.captured = "rejected"
    /\ Len(SeriesOf(CurrentKey).times) = 1
    /\ session_state.last_capture_time = accepted_at[CurrentKey]
    /\ clock > session_state.last_capture_time

\* C4: a series never holds more than the cap, and eviction is FIFO: the
\* series holds exactly the most recent (at most cap) of the times captured
\* for the key, ascending, in the list and in the data map alike.
C4_CapAndFifo ==
    \A k \in ConfigKeys :
        /\ Len(SeriesOf(k).times) <= SnapshotCap
        /\ SeriesOf(k).times = LastN(Ascending(captured_times[k]), SnapshotCap)
        /\ DOMAIN SeriesOf(k).data = SeqToSet(SeriesOf(k).times)

\* cap + 1 captures with distinct timestamps were accepted for a key, and
\* the last of them has just evicted the oldest.
C4_Witness ==
    /\ result.captured = "accepted"
    /\ Cardinality(captured_times[CurrentKey]) = SnapshotCap + 1
    /\ Len(SeriesOf(CurrentKey).times) = SnapshotCap

\* C5: whatever captures, evictions and clears have run, every series'
\* times are strictly increasing and each of them is a key of its data map.
C5_SeriesInvariant ==
    \A k \in StoredKeys :
        /\ StrictlyIncreasing(SeriesOf(k).times)
        /\ \A t \in SeqToSet(SeriesOf(k).times) : t \in DOMAIN SeriesOf(k).data

\* A forced capture in the second of an existing entry, in a series that
\* has evicted before.
C5_Witness ==
    /\ result.captured = "accepted" /\ result.forced
    /\ accepted_at[CurrentKey] = clock
    /\ Len(SeriesOf(CurrentKey).times) = SnapshotCap
    /\ Cardinality(captured_times[CurrentKey]) > SnapshotCap
    /\ \E k \in StoredKeys : k # CurrentKey /\ SeriesOf(k).times = <<>>


\* C6: the Live/Historical state machine: a selection (by slider or by
\* quick jump) of an index other than the newest enters Historical with that
\* index pinned; Go Live, or a selection of the newest index, ends in Live
\* with no index pinned.
C6_LiveHistoricalMachine ==
    [][LET newest == Len(CurrentTimes) - 1
           Live == session_state'.is_live_mode
                   /\ session_state'.selected_time_index = NoIndex
           Pinned(i) == ~session_state'.is_live_mode
                        /\ session_state'.selected_time_index = i
       IN  /\ \A i \in 0..SnapshotCap :
                  MoveSlider(i) => IF i = newest THEN Live ELSE Pinned(i)
           /\ \A minutes \in QuickJumpPresets :
                  PressQuickJump(minutes) =>
                      LET i == QuickJumpTarget(CurrentTimes, minutes, clock')
                      IN  IF i = newest THEN Live ELSE Pinned(i)
           /\ PressGoLive => Live]_vars

\* An index is pinned: Historical mode with a selected index.
IndexPinned == ~session_state.is_live_mode /\ session_state.selected_time_index # NoIndex

\* C7: the historical lookup never fails: no execution ends in an exception;
\* for a pinned index inside the current key's series it returns the
\* snapshot stored at that position; for a pinned index outside it (or an
\* empty series) it returns absent, and the execution takes the live path,
\* never the historical one.
C7_LookupNeverFails ==
    LET config == get_current_snapshots(session_state)
        sel == session_state.selected_time_index
        found == HistoricalLookup(session_state, config)
    IN  /\ result.branch # "raised"
        /\ (IndexPinned /\ sel < Len(config.times))
               => found = config.data[config.times[sel + 1]]
        /\ (IndexPinned /\ sel >= Len(config.times))
               => /\ found = NoSnapshot
                  /\ result.branch # "historical"
        /\ result.branch = "historical"
               => /\ IndexPinned /\ sel < Len(config.times)
                  /\ found # NoSnapshot

\* An execution looked up an index pinned under another key, beyond the end
\* of the current key's series, and went on to the live path.
C7_Witness ==
    LET config == get_current_snapshots(session_state)
    IN  /\ IndexPinned
        /\ Len(config.times) > 1
        /\ session_state.selected_time_index >= Len(config.times)
        /\ result.branch = "live"

\* In the dashboard of gex_calculator.py, whose lookup has no range test, a
\* pinned index is always inside the series: no execution raises.
CalcPinnedIndexInRange ==
    /\ result.branch # "raised"
    /\ IndexPinned => session_state.selected_time_index < Len(session_state.snapshot_times)

(***************************************************************************)
(* Properties of the price resolution chain.                               *)
(***************************************************************************)
StrategyOrder ==
    <<"Groww API", "Groww Page", "Groww Contract", "Put-Call Parity", "Cost of Carry">>

\* What each strategy yields against the market of the call.
StrategyPrice(label) ==
    CASE label = "Groww API" ->
             _fetch_from_derivatives_api(market.api, selected_expiry)
      [] label = "Groww Page" ->
             _fetch_from_futures_page(symbol, market.page)
      [] label = "Groww Contract" ->
             _fetch_from_contract_api(market.contract, selected_expiry)
      [] label = "Put-Call Parity" ->
             _calculate_futures_from_pcp(market.records_data, market.spot_price,
                                         selected_expiry)
      [] label = "Cost of Carry" ->
             CostOfCarry(market.spot_price, market.days_to_expiry)

\* The option chain has, for the expiry, a strike closest to spot whose call
\* and put both have a positive last price.
ParityLegsPositive ==
    LET data == market.records_data
        OfExpiry == {i \in 1..Len(data) : data[i].expiryDate = selected_expiry}
    IN  \E i \in OfExpiry :
            /\ \A j \in OfExpiry : Abs(data[i].strikePrice - market.spot_price)
                                       <= Abs(data[j].strikePrice - market.spot_price)
            /\ data[i].CE # NoField /\ data[i].CE > 0
            /\ data[i].PE # NoField /\ data[i].PE > 0

\* C8: the chain returns the price of the first strategy that succeeds, in
\* the order Groww API, Groww Page, Groww Contract, Put-Call Parity, Cost of
\* Carry, under that strategy's label, and attempts no later strategy; a
\* price of the primary source is returned as "Groww API"; "Put-Call Parity"
\* is returned only after the three provider strategies failed and with both
\* legs positive at the strike closest to spot; "Cost of Carry" only after
\* parity failed as well.
C8_FirstSuccessInOrder ==
    chain.pc = "returned" =>
        /\ \E n \in 1..Len(StrategyOrder) :
               /\ chain.fetch_method = StrategyOrder[n]
               /\ chain.futures_ltp = StrategyPrice(StrategyOrder[n])
               /\ chain.attempted = SubSeq(StrategyOrder, 1, n)
               /\ \A m \in 1..(n - 1) : ~Truthy(StrategyPrice(StrategyOrder[m]))
               /\ n < Len(StrategyOrder) => Truthy(StrategyPrice(StrategyOrder[n]))
        /\ Truthy(StrategyPrice("Groww API"))
               => /\ chain.fetch_method = "Groww API"
                  /\ chain.futures_ltp = StrategyPrice("Groww API")
                  /\ chain.attempted = <<"Groww API">>
        /\ chain.fetch_method = "Put-Call Parity" => ParityLegsPositive

\* Parity was returned after the three provider strategies failed, the page
\* with matches outside the band.
C8_Witness ==
    /\ chain.pc = "returned"
    /\ chain.fetch_method = "Put-Call Parity"
    /\ Len(chain.attempted) = 4
    /\ market.page.found # <<>>
    /\ ParityLegsPositive

\* C9: given a nonzero spot, the chain always ends with a reference price:
\* no failure of a strategy raises out of it, it stops nowhere but at a
\* returned price, and that price is present whatever the provider
\* strategies and parity did.
C9_AlwaysProducesPrice ==
(market.spot_price # 0 /\ chain.pc # "demo") =>
        /\ chain.pc # "raised"
        /\ ~(ENABLED ChainNext) => chain.pc = "returned"
        /\ chain.pc = "returned" => Truthy(chain.futures_ltp) /\ chain.futures_ltp > 0

\* The floor supplied the price: two provider requests raised, the page gave
\* nothing and parity had no usable legs.
C9_Witness ==
    /\ chain.pc = "returned"
    /\ chain.fetch_method = "Cost of Carry"
    /\ market.api.raises /\ market.contract.raises
    /\ ~ParityLegsPositive
    /\ chain.futures_ltp >= market.spot_price

\* C10: every reference price the chain returns lies strictly inside the
\* band of the instrument.
C10_ReturnedPriceInBand ==
    chain.pc = "returned" => _validate_price(symbol, chain.futures_ltp)

(***************************************************************************)
(* The result of fetch_and_calculate_gex_dex.                              *)
(***************************************************************************)
\* The items of the selected expiry that the strikes range keeps.
InRange(item, futures_ltp) ==
    /\ item.expiryDate = selected_expiry
    /\ item.strikePrice # 0
    /\ Abs(item.strikePrice - futures_ltp)
           <= strikes_range * get_contract_specs(symbol).strike_interval

EmptyStrikeSet ==
    /\ chain.pc = "returned"
    /\ \A i \in DOMAIN market.records_data :
           ~InRange(market.records_data[i], chain.futures_ltp)

\* A kept item, the first of its strike, has a null leg.
ProcessingException ==
    /\ chain.pc = "returned"
    /\ \E i \in DOMAIN market.records_data :
           LET item == market.records_data[i]
           IN  /\ InRange(item, chain.futures_ltp)
               /\ NullLeg \in {item.CE, item.PE}
               /\ \A j \in 1..(i - 1) :
                      \/ market.records_data[j].expiryDate # selected_expiry
                      \/ market.records_data[j].strikePrice # item.strikePrice

FallbackCondition ==
    \/ market.session.raises \/ market.session.status_code # 200
    \/ market.option_chain.raises \/ market.option_chain.status_code # 200
    \/ ~market.option_chain.has_records
    \/ market.expiry_dates = <<>>
    \/ market.spot_price = 0
    \/ EmptyStrikeSet
    \/ ProcessingException

Complete(r) ==
    /\ r.df # <<>>
    /\ r.futures_ltp # NoPrice /\ r.futures_ltp > 0
    /\ r.fetch_method # ""
    /\ r.atm_info.atm_strike # NoField

\* C11: fetch_and_calculate_gex_dex never raises and never ends without a
\* result; what it returns is complete (a table with rows, a reference
\* price, a source label, an ATM strike); and when the session or the option
\* chain fails, no expiry is listed, the spot is 0, no strike is kept or the
\* processing raises, what it returns is the synthetic generator's result.
C11_AlwaysCompleteResult ==
    /\ fetched.kind \in {"none", "live", "synthetic"}
    /\ chain.pc # "raised"
    /\ ~(ENABLED ChainNext) => fetched.kind # "none"
    /\ fetched.kind # "none" => Complete(fetched)
    /\ (fetched.kind # "none" /\ FallbackCondition) => fetched.kind = "synthetic"

\* The processing raised on a null leg, after the chain had found a price,
\* and the synthetic result was returned.
C11_Witness ==
    /\ ProcessingException
    /\ ~EmptyStrikeSet
    /\ fetched.kind = "synthetic"
    /\ Complete(fetched)

\* C12: the source label of a result is "Demo Data" exactly when the
\* synthetic generator produced it, and every live result carries one of
\* the five labels of the chain.
C12_LabelTellsSource ==
    fetched.kind # "none" =>
        /\ fetched.fetch_method = "Demo Data" <=> fetched.kind = "synthetic"
        /\ fetched.kind = "live" => fetched.fetch_method \in SeqToSet(StrategyOrder)

\* The chain had resolved a price under one of its labels when the
\* processing fell back: the result carries the generator's label, not the
\* chain's.
C12_Witness ==
    /\ chain.pc = "returned"
    /\ chain.fetch_method \in SeqToSet(StrategyOrder)
    /\ fetched.kind = "synthetic"
    /\ fetched.fetch_method = "Demo Data"

(***************************************************************************)
(* The Greeks.                                                             *)
(***************************************************************************)
Degenerate == greeks.T <= 0 \/ greeks.sigma <= 0 \/ greeks.S <= 0 \/ greeks.K <= 0

\* C13: for T <= 0 or sigma <= 0 or S <= 0 or K <= 0, calculate_gamma,
\* calculate_call_delta, calculate_put_delta and calculate_vega return 0.
C13_DegenerateInputsGiveZero ==
    Degenerate => \A name \in DOMAIN greeks.out : greeks.out[name] = 0

\* All four Greeks computed, and 0, for an option whose strike alone is out
\* of the domain.
C13_Witness ==
    /\ greeks.K <= 0 /\ greeks.S > 0 /\ greeks.T > 0 /\ greeks.sigma > 0
    /\ DOMAIN greeks.out = GreekNames
    /\ \A name \in GreekNames : greeks.out[name] = 0

\* In the domain the Greeks are not 0: gamma and vega positive, the call
\* delta between 0 and 1, the put delta the call delta less 1.
GreeksInDomain ==
    (~Degenerate /\ DOMAIN greeks.out = GreekNames) =>
        /\ greeks.out["gamma"] > 0
        /\ greeks.out["vega"] > 0
        /\ greeks.out["call_delta"] > 0 /\ greeks.out["call_delta"] < 10000
        /\ greeks.out["put_delta"] = greeks.out["call_delta"] - 10000

(***************************************************************************)
(* The analytics of the exposure table.                                    *)
(***************************************************************************)
Sign(x) == IF x > 0 THEN 1 ELSE IF x < 0 THEN -1 ELSE 0

NetGex(i) == flow.df[i].Net_GEX_B

MaxAbsGex ==
    IF flow.df = <<>>
    THEN 0
    ELSE CHOOSE m \in {Abs(NetGex(i)) : i \in DOMAIN flow.df} :
             \A i \in DOMAIN flow.df : Abs(NetGex(i)) <= m

\* C14: the strike with the maximum |net GEX| has pressure exactly +100 or
\* -100 with the sign of its net GEX, every strike's pressure lies in
\* [-100, 100] and has the value of net GEX / max|net GEX| * 100, and when
\* the maximum |net GEX| is 0 every strike's pressure is 0.
C14_HedgingPressureScaled ==
    "Hedging_Pressure" \in DOMAIN flow.out =>
        LET pressure == flow.out["Hedging_Pressure"]
        IN  /\ DOMAIN pressure = DOMAIN flow.df
            /\ \A i \in DOMAIN flow.df :
                  /\ pressure[i] >= -10000 /\ pressure[i] <= 10000
                  /\ MaxAbsGex = 0 => pressure[i] = 0
                  /\ MaxAbsGex > 0 =>
                        /\ pressure[i] * MaxAbsGex <= NetGex(i) * 10000
                        /\ (pressure[i] + 1) * MaxAbsGex > NetGex(i) * 10000
                  /\ (MaxAbsGex > 0 /\ Abs(NetGex(i)) = MaxAbsGex) =>
                        pressure[i] = Sign(NetGex(i)) * 10000

\* The maximum is at a negative strike, pressure -100, beside a positive
\* strike whose pressure is inside the band.
C14_Witness ==
    /\ "Hedging_Pressure" \in DOMAIN flow.out
    /\ \E i, j \in DOMAIN flow.df :
          /\ NetGex(i) < 0 /\ Abs(NetGex(i)) = MaxAbsGex
          /\ flow.out["Hedging_Pressure"][i] = -10000
          /\ NetGex(j) > 0
          /\ flow.out["Hedging_Pressure"][j] > 0
          /\ flow.out["Hedging_Pressure"][j] < 10000

\* The adjacent pairs of the table, the table being in strike order.
Pairs == {i \in DOMAIN flow.df : i + 1 \in DOMAIN flow.df}

OppositeSigns(i) == Sign(NetGex(i)) * Sign(NetGex(i + 1)) = -1

Alternating == flow.df # <<>> /\ \A i \in Pairs : OppositeSigns(i)

OneSigned ==
    \/ \A i \in DOMAIN flow.df : NetGex(i) > 0
    \/ \A i \in DOMAIN flow.df : NetGex(i) < 0

\* C15: detect_gamma_flip_zones returns one zone per adjacent pair whose net
\* GEX values have strictly opposite signs; a strictly alternating book of N
\* strikes gives N - 1 zones, an all-positive or all-negative book none.
C15_OneZonePerSignChange ==
    "gamma_flip_zones" \in DOMAIN flow.out =>
        LET zones == flow.out["gamma_flip_zones"]
        IN  /\ Len(zones) = Cardinality({i \in Pairs : OppositeSigns(i)})
            /\ \A i \in Pairs :
                  OppositeSigns(i) <=>
                      \E z \in DOMAIN zones :
                          /\ zones[z].lower_strike = flow.df[i].Strike
                          /\ zones[z].upper_strike = flow.df[i + 1].Strike
            /\ Alternating => Len(zones) = Len(flow.df) - 1
            /\ OneSigned => Len(zones) = 0

\* A strictly alternating book of four strikes, three zones.
C15_Witness ==
    /\ "gamma_flip_zones" \in DOMAIN flow.out
    /\ Len(flow.df) = 4
    /\ Alternating
    /\ Len(flow.out["gamma_flip_zones"]) = 3

\* C16: no zone is emitted for an adjacent pair in which either net GEX is
\* 0; every zone is bounded by two adjacent strikes, lower below upper; the
\* zones are in ascending strike order; flip_type is "DAMPENING ->
\* AMPLIFYING" exactly when the net GEX of the lower strike is positive,
\* otherwise "AMPLIFYING -> DAMPENING".
C16_ZoneShape ==
    "gamma_flip_zones" \in DOMAIN flow.out =>
        LET zones == flow.out["gamma_flip_zones"]
        IN  /\ \A i \in Pairs :
                  (NetGex(i) = 0 \/ NetGex(i + 1) = 0) =>
                      ~\E z \in DOMAIN zones : zones[z].lower_strike = flow.df[i].Strike
            /\ \A z \in DOMAIN zones :
                  /\ \E i \in Pairs :
                        /\ zones[z].lower_strike = flow.df[i].Strike
                        /\ zones[z].upper_strike = flow.df[i + 1].Strike
                        /\ zones[z].flip_type = "DAMPENING -> AMPLIFYING" <=> NetGex(i) > 0
                  /\ zones[z].lower_strike < zones[z].upper_strike
                  /\ zones[z].flip_type
                         \in {"DAMPENING -> AMPLIFYING", "AMPLIFYING -> DAMPENING"}
            /\ \A y, z \in DOMAIN zones :
                  y < z => zones[y].lower_strike < zones[z].lower_strike

\* A zero between a positive and a negative strike gives no zone, the sign
\* change after it does.
C16_Witness ==
    /\ "gamma_flip_zones" \in DOMAIN flow.out
    /\ Len(flow.df) = 4
    /\ NetGex(1) > 0 /\ NetGex(2) = 0 /\ NetGex(3) < 0 /\ NetGex(4) > 0
    /\ Len(flow.out["gamma_flip_zones"]) = 1
    /\ flow.out["gamma_flip_zones"][1].flip_type = "AMPLIFYING -> DAMPENING"

\* C17: for a table in which every strike has net GEX 0, the flow metrics
\* carry the neutral GEX bias and a combined_signal of 0.
C17_ZeroGexIsNeutral ==
    ("flow_metrics" \in DOMAIN flow.out /\ \A i \in DOMAIN flow.df : NetGex(i) = 0) =>
        /\ flow.out["flow_metrics"].gex_near_bias = "NEUTRAL"
        /\ flow.out["flow_metrics"].combined_signal = 0

\* The part of C17 that holds: the GEX bias of such a table is neutral, its
\* combined_signal half its near-term DEX.
ZeroGexBiasNeutral ==
    ("flow_metrics" \in DOMAIN flow.out /\ \A i \in DOMAIN flow.df : NetGex(i) = 0) =>
        /\ flow.out["flow_metrics"].gex_near_bias = "NEUTRAL"
        /\ flow.out["flow_metrics"].combined_signal
               = flow.out["flow_metrics"].dex_near_total

DampeningLabels == {"DAMPENING + BULLISH", "DAMPENING + BEARISH", "VOL DAMPENING"}

AmplifyingLabels == {"AMPLIFYING + BULLISH", "AMPLIFYING + BEARISH", "VOL AMPLIFYING"}

DexAloneLabels == {"BULLISH BIAS", "BEARISH BIAS", "NEUTRAL"}

\* C18: a near-term GEX over 50 gives a dampening label and one under -50
\* an amplifying label, sub-labelled by the DEX (over 20 bullish, under -20
\* bearish, otherwise plain); from -50 to 50 the DEX alone decides (over 30
\* bullish bias, under -30 bearish bias, otherwise neutral).
C18_GexRegimeFirst ==
    "flow_metrics" \in DOMAIN flow.out =>
        LET m == flow.out["flow_metrics"]
            gex == m.gex_near_total
            dex == m.dex_near_total
            sub == IF dex > 20 THEN "bullish" ELSE IF dex < -20 THEN "bearish" ELSE "plain"
        IN  /\ m.combined_bias \in DampeningLabels \cup AmplifyingLabels \cup DexAloneLabels
            /\ gex > 50 =>
                  m.combined_bias = CASE sub = "bullish" -> "DAMPENING + BULLISH"
                                      [] sub = "bearish" -> "DAMPENING + BEARISH"
                                      [] sub = "plain" -> "VOL DAMPENING"
            /\ gex < -50 =>
                  m.combined_bias = CASE sub = "bullish" -> "AMPLIFYING + BULLISH"
                                      [] sub = "bearish" -> "AMPLIFYING + BEARISH"
                                      [] sub = "plain" -> "VOL AMPLIFYING"
            /\ (gex >= -50 /\ gex <= 50) =>
                  m.combined_bias = IF dex > 30 THEN "BULLISH BIAS"
                                    ELSE IF dex < -30 THEN "BEARISH BIAS"
                                    ELSE "NEUTRAL"
            /\ m.combined_bias \in DexAloneLabels => (gex >= -50 /\ gex <= 50)

\* A DEX that would read bullish alone, under a GEX beyond the band: the
\* label is the dampening one.
C18_Witness ==
    /\ "flow_metrics" \in DOMAIN flow.out
    /\ flow.out["flow_metrics"].gex_near_total = 51
    /\ flow.out["flow_metrics"].dex_near_total = 31
    /\ flow.out["flow_metrics"].combined_bias = "DAMPENING + BULLISH"

\* The band of a value on an axis.
Band(val) ==
    IF val > 50 THEN "strong-positive"
    ELSE IF val > 0 /\ val <= 50 THEN "mild-positive"
    ELSE IF val = 0 THEN "neutral"
    ELSE IF val >= -50 /\ val < 0 THEN "mild-negative"
    ELSE "strong-negative"

GexLabelOf ==
    [b \in {"strong-positive", "mild-positive", "neutral", "mild-negative", "strong-negative"} |->
        CASE b = "strong-positive" -> "STRONG VOL DAMPENING"
          [] b = "mild-positive" -> "VOL DAMPENING"
          [] b = "neutral" -> "NEUTRAL"
          [] b = "mild-negative" -> "VOL AMPLIFYING"
          [] b = "strong-negative" -> "STRONG VOL AMPLIFYING"]

DexLabelOf ==
    [b \in {"strong-positive", "mild-positive", "neutral", "mild-negative", "strong-negative"} |->
        CASE b = "strong-positive" -> "STRONG BULLISH"
          [] b = "mild-positive" -> "BULLISH"
          [] b = "neutral" -> "NEUTRAL"
          [] b = "mild-negative" -> "BEARISH"
          [] b = "strong-negative" -> "STRONG BEARISH"]

\* C19: the bias label of an axis is that of the band of its value: over 50
\* strong-positive, over 0 to 50 mild-positive, 0 neutral, from -50 to under
\* 0 mild-negative, under -50 strong-negative, the same bands on both axes.
C19_FiveBands ==
    "flow_metrics" \in DOMAIN flow.out =>
        LET m == flow.out["flow_metrics"]
        IN  /\ m.gex_near_bias = GexLabelOf[Band(m.gex_near_total)]
            /\ m.dex_near_bias = DexLabelOf[Band(m.dex_near_total)]

\* Both axes on the threshold: each reads mild, not strong.
C19_Witness ==
    /\ "flow_metrics" \in DOMAIN flow.out
    /\ flow.out["flow_metrics"].gex_near_total = -50
    /\ flow.out["flow_metrics"].dex_near_total = 50
    /\ flow.out["flow_metrics"].gex_near_bias = "VOL AMPLIFYING"
    /\ flow.out["flow_metrics"].dex_near_bias = "BULLISH"

(***************************************************************************)
(* Two captures on one key.                                                *)
(***************************************************************************)
DuplicateTime ==
    \E i, j \in DOMAIN race.times : i # j /\ race.times[i] = race.times[j]

TimeWithoutData ==
    \E i \in DOMAIN race.times : race.times[i] \notin DOMAIN race.data

AllReturned == \A c \in Calls : race.call[c].pc \in {"returned", "rejected"}

\* C20: with the two captures serialized no state has a duplicate timestamp
\* in the list or a timestamp with no entry in the data map; without
\* serialization such a state is reached (C20_Witness).
C20_SerializedCapturesSafe ==
    race.serialized => ~DuplicateTime /\ ~TimeWithoutData

\* Not serialized: both calls have returned and the list holds one
\* timestamp twice.
C20_Witness ==
    /\ ~race.serialized
    /\ AllReturned
    /\ \A c \in Calls : race.call[c].pc = "returned"
    /\ DuplicateTime

\* Serialized, both calls accepted: the series is sorted, without
\* duplicates, within the cap, and the list and the map hold the same times.
SerializedSeriesInvariant ==
    (race.serialized /\ AllReturned) =>
        /\ StrictlyIncreasing(race.times)
        /\ Len(race.times) <= SnapshotCap
        /\ SeqToSet(race.times) = DOMAIN race.data

(***************************************************************************)
(* The single-series Time Machine of gex_calculator.py.                    *)
(***************************************************************************)
\* C21: in the dashboard of gex_calculator.py a capture requested with
\* "Capture Now" (force_capture set) is accepted whatever the elapsed time:
\* the live cycle stores a snapshot under the current timestamp.
C21_CalcForcedCaptureAccepted ==
    (CaptureCalled /\ result.forced) =>
        /\ result.captured = "accepted"
        /\ InList(session_state.snapshot_times, clock)
        /\ clock \in DOMAIN session_state.data_snapshots
        /\ session_state.last_capture_time = clock

(***************************************************************************)
(* The live exposure table.                                                *)
(***************************************************************************)
Records == market.records_data

\* The first record of the selected expiry with the strike of record k.
FirstOfStrike(k) ==
    /\ Records[k].expiryDate = selected_expiry
    /\ \A j \in 1..(k - 1) :
          \/ Records[j].expiryDate # selected_expiry
          \/ Records[j].strikePrice # Records[k].strikePrice

\* The records the table is built from, by the claim: the first of each
\* strike of the selected expiry, strike not 0, within the strikes range.
Retained ==
    {k \in DOMAIN Records :
        /\ FirstOfStrike(k)
        /\ Records[k].strikePrice # 0
        /\ Abs(Records[k].strikePrice - fetched.futures_ltp)
               <= strikes_range * get_contract_specs(symbol).strike_interval}

\* C22: the live table holds each strike at most once, the row of a strike
\* being the first record seen for it in the selected expiry (other expiries
\* and strike 0 skipped), holds only strikes within strikes_range intervals
\* of the reference price (and one row for each such strike), and is sorted
\* ascending by strike.
C22_LiveTableUniqueSorted ==
    fetched.kind = "live" =>
        /\ \A i, j \in DOMAIN fetched.df :
              i < j => fetched.df[i].Strike < fetched.df[j].Strike
        /\ \A i \in DOMAIN fetched.df :
              \E k \in Retained :
                  /\ fetched.df[i].Strike = Records[k].strikePrice
                  /\ fetched.df[i].Call_LTP = LegPrice(Records[k].CE)
                  /\ fetched.df[i].Put_LTP = LegPrice(Records[k].PE)
        /\ Len(fetched.df) = Cardinality(Retained)

\* From a chain given out of strike order, with a second record of a
\* strike, a record of another expiry, a strike 0 and a strike out of range:
\* the table holds the three strikes in range, the farthest exactly on the
\* range.
C22_Witness ==
    /\ fetched.kind = "live"
    /\ Len(Records) = 7
    /\ Records[1].strikePrice > Records[3].strikePrice
    /\ Len(fetched.df) = 3
    /\ fetched.df[1].Strike = 24450 /\ fetched.df[2].Strike = 24550
    /\ fetched.df[2].Call_LTP = 60
    /\ fetched.df[3].Strike - fetched.futures_ltp
           = strikes_range * get_contract_specs(symbol).strike_interval

\* C23: in the live path the ATM strike is a strike of the table that
\* minimises |strike - reference price| over the retained strikes, the first
\* in input order on a tie, and the ATM straddle premium is that strike's call
\* last price plus its put last price.
C23_AtmIsClosestStrike ==
    fetched.kind = "live" =>
        \E k \in Retained :
            /\ fetched.atm_info.atm_strike = Records[k].strikePrice
            /\ \E i \in DOMAIN fetched.df : fetched.df[i].Strike = fetched.atm_info.atm_strike
            /\ \A other \in Retained :
                  LET diff == Abs(Records[k].strikePrice - fetched.futures_ltp)
                      other_diff == Abs(Records[other].strikePrice - fetched.futures_ltp)
                  IN  diff < other_diff \/ (diff = other_diff /\ k <= other)
            /\ fetched.atm_info.atm_straddle_premium
                   = LegPrice(Records[k].CE) + LegPrice(Records[k].PE)

\* Two strikes equally far from the reference price: the ATM strike is the
\* one the chain gave first, the higher one, with its straddle of 60 + 130.
C23_Witness ==
    /\ fetched.kind = "live"
    /\ fetched.futures_ltp = 24500
    /\ \E i, j \in DOMAIN fetched.df :
          /\ fetched.df[i].Strike = 24450
          /\ fetched.df[j].Strike = 24550
    /\ ~\E i \in DOMAIN fetched.df : fetched.df[i].Strike = 24500
    /\ fetched.atm_info.atm_strike = 24550
    /\ fetched.atm_info.atm_straddle_premium = 190

(***************************************************************************)
(* The near-term flow totals, stated over the book as a set of rows.       *)
(***************************************************************************)
\* The de-duplicated book: the first row of each strike.
Book ==
    {flow.df[i] : i \in {k \in 1..Len(flow.df) :
                            \A j \in 1..(k - 1) : flow.df[j].Strike # flow.df[k].Strike}}

RECURSIVE SumOver(_, _)
SumOver(S, column) ==
    IF S = {}
    THEN 0
    ELSE LET r == CHOOSE x \in S : TRUE
         IN  r[column] + SumOver(S \ {r}, column)

PositiveGex == {r \in Book : r.Net_GEX_B > 0}

NegativeGex == {r \in Book : r.Net_GEX_B < 0}

\* The choices of the (at most) n rows of S closest to the futures price:
\* no row left out is closer than a row taken.
Closest(S, n) ==
    {T \in SUBSET S :
        /\ Cardinality(T) = (IF Cardinality(S) < n THEN Cardinality(S) ELSE n)
        /\ \A t \in T, u \in S \ T :
               Abs(t.Strike - flow.futures_ltp) <= Abs(u.Strike - flow.futures_ltp)}

FlowComputed == "flow_metrics" \in DOMAIN flow.out

\* C24: gex_near_total is the sum of the net GEX of the (at most) 5
\* positive-GEX strikes of the de-duplicated book closest to the reference
\* price plus that of the (at most) 5 negative-GEX strikes closest to it;
\* with fewer than 5 of a sign all of them count, and a strike of GEX 0
\* counts in neither.
C24_GexNearTotal ==
    FlowComputed =>
        \E P \in Closest(PositiveGex, NearCount), N \in Closest(NegativeGex, NearCount) :
            /\ flow.out.flow_metrics.gex_near_positive = SumOver(P, "Net_GEX_B")
            /\ flow.out.flow_metrics.gex_near_negative = SumOver(N, "Net_GEX_B")
            /\ flow.out.flow_metrics.gex_near_total =
                   SumOver(P, "Net_GEX_B") + SumOver(N, "Net_GEX_B")

\* More than 5 positive strikes, so that the farthest is left out, beside a
\* single negative one, on a book that had a second row for a strike.
C24_Witness ==
    /\ FlowComputed
    /\ Cardinality(PositiveGex) > NearCount
    /\ Cardinality(NegativeGex) = 1
    /\ Cardinality(Book) < Len(flow.df)
    /\ flow.out.flow_metrics.gex_near_positive < SumOver(PositiveGex, "Net_GEX_B")
    /\ flow.out.flow_metrics.gex_near_negative < 0

StrikesAbove == {r \in Book : r.Strike > flow.futures_ltp}

StrikesBelow == {r \in Book : r.Strike < flow.futures_ltp}

\* C25: dex_near_total is the sum of the net DEX of the (at most) 5 lowest
\* strikes strictly above the reference price plus that of the (at most) 5
\* highest strikes strictly below it, by position in the sorted
\* de-duplicated book whatever the sign; a strike equal to the reference
\* price is in neither group.
C25_DexNearTotal ==
    FlowComputed =>
        LET above == {r \in StrikesAbove :
                         Cardinality({u \in StrikesAbove : u.Strike < r.Strike}) < NearCount}
            below == {r \in StrikesBelow :
                         Cardinality({u \in StrikesBelow : u.Strike > r.Strike}) < NearCount}
        IN  /\ flow.out.flow_metrics.dex_near_positive = SumOver(above, "Net_DEX_B")
            /\ flow.out.flow_metrics.dex_near_negative = SumOver(below, "Net_DEX_B")
            /\ flow.out.flow_metrics.dex_near_total =
                   SumOver(above, "Net_DEX_B") + SumOver(below, "Net_DEX_B")

\* Six strikes below a reference price that is itself a strike: the lowest
\* and the one at the price are left out.
C25_Witness ==
    /\ FlowComputed
    /\ Cardinality(StrikesBelow) > NearCount
    /\ \E r \in Book : r.Strike = flow.futures_ltp
    /\ StrikesAbove = {}
    /\ flow.out.flow_metrics.dex_near_total # SumOver(StrikesBelow, "Net_DEX_B")
    /\ flow.out.flow_metrics.dex_near_total # 0

(***************************************************************************)
(* The mode and the pinned index.                                          *)
(***************************************************************************)
\* C26: in every reachable state of the time machine is_live_mode is true
\* exactly when selected_time_index is None: Historical mode always has a
\* pinned index and Live mode never has one.
C26_LiveIffNoIndex ==
    session_state.is_live_mode <=> (session_state.selected_time_index = NoIndex)

\* An execution that showed a stored snapshot: Historical, with an index
\* pinned by the slider or a quick jump.
C26_Witness ==
    /\ result.branch = "historical"
    /\ ~session_state.is_live_mode
    /\ session_state.selected_time_index # NoIndex
    /\ session_state.selected_time_index < Len(CurrentTimes)

\* C27: an execution for another expiry than the one before ends in Live
\* mode with no index pinned, and does not show a stored snapshot: an index
\* pinned in one key's series is not used to look up another key's series.
C27_KeyChangeGoesLive ==
    [][expiry_index' # expiry_index =>
          /\ session_state'.is_live_mode
          /\ session_state'.selected_time_index = NoIndex
          /\ result'.branch # "historical"]_vars

(***************************************************************************)
(* The historical branch reads the store and leaves it as it is.           *)
(***************************************************************************)
\* The series of the ConfigKey on screen.
CurrentSeries == get_current_snapshots(session_state)

\* The main analysis has run (the execution did not end in st.rerun()) and
\* the mode was Historical.
HistoricalCycle == ~rerun_pending /\ ~session_state.is_live_mode

\* C28: an execution of streamlit_app.py whose main analysis runs in
\* Historical mode has its pinned index within the current key's series and
\* stored data at it, shows the stored snapshot, and fetches, captures and
\* evicts nothing; a series changes by a capture only in an execution that
\* takes the live branch; and from one Historical state to the next the
\* series on screen is the same, so a pinned index denotes the same
\* snapshot until the mode returns to Live.
C28_HistoricalCycleReadsOnly ==
    [][/\ HistoricalCycle' =>
              /\ result'.branch = "historical"
              /\ result'.captured = "none"
              /\ session_state'.selected_time_index \in 0..(Len(CurrentSeries'.times) - 1)
              /\ At(CurrentSeries'.times, session_state'.selected_time_index)
                     \in DOMAIN CurrentSeries'.data
              /\ session_state'.snapshots_by_config = session_state.snapshots_by_config
              /\ session_state'.last_capture_time = session_state.last_capture_time
       /\ \A k \in ConfigKeys :
              (/\ k \in DOMAIN session_state'.snapshots_by_config
               /\ session_state'.snapshots_by_config[k] # EmptyConfig
               /\ \/ k \notin DOMAIN session_state.snapshots_by_config
                  \/ session_state'.snapshots_by_config[k] #
                         session_state.snapshots_by_config[k])
                  => result'.branch = "live"
       /\ (~session_state.is_live_mode /\ ~session_state'.is_live_mode) =>
              /\ session_state'.current_config_key = session_state.current_config_key
              /\ CurrentSeries' = CurrentSeries]_vars

\* "Capture Now" pressed (or auto-capture due) while a stored snapshot is on
\* screen: the execution took the historical branch and captured nothing,
\* though the interval had passed.
C28_Witness ==
    /\ HistoricalCycle
    /\ result.branch = "historical"
    /\ session_state.force_capture
    /\ session_state.auto_capture
    /\ clock - session_state.last_capture_time >= session_state.capture_interval * 60
    /\ Len(CurrentSeries.times) = SnapshotCap

(***************************************************************************)
(* One series per ConfigKey.                                               *)
(***************************************************************************)
\* The series stored for a key, or None.
StoredSeries(ss, k) ==
    IF k \in DOMAIN ss.snapshots_by_config
    THEN <<ss.snapshots_by_config[k]>>
    ELSE <<>>

OtherKeys == ConfigKeys \ {get_config_key(symbol, expiry_index)}

\* C29: an execution for key A (its capture with the eviction, or "Clear
\* This Config") changes the times list and the data map of A only: the
\* series of every other key is what it was.  A clear leaves A with an
\* empty list and an empty map, in Live mode with no index pinned.
C29_SeriesIsolated ==
    [][/\ \A k \in OtherKeys' :
              StoredSeries(session_state', k) = StoredSeries(session_state, k)
       /\ (/\ rerun_pending'
           /\ StoredSeries(session_state', session_state'.current_config_key) #
                  StoredSeries(session_state, session_state'.current_config_key))
              => /\ CurrentSeries' = EmptyConfig
                 /\ session_state'.is_live_mode
                 /\ session_state'.selected_time_index = NoIndex]_vars

\* A capture for one key that evicted its oldest entry while the other key
\* holds a series of its own.
C29_Witness ==
    /\ result.captured = "accepted"
    /\ Len(CurrentSeries.times) = SnapshotCap
    /\ Cardinality(captured_times[session_state.current_config_key]) > SnapshotCap
    /\ \E k \in OtherKeys :
           /\ k \in DOMAIN session_state.snapshots_by_config
           /\ Len(session_state.snapshots_by_config[k].times) > 0

(***************************************************************************)
(* A capture in the second of an entry the series holds.                   *)
(***************************************************************************)
\* No call of capture_snapshot is under way.
RaceQuiet == \A c \in Calls : ~Underway(race.call[c])

\* Call c alone has run, and has stored its snapshot.
OnlyReturned(c) ==
    /\ race.call[c].pc = "returned"
    /\ \A other \in Calls \ {c} : race.call[other].pc = "idle"

\* C30: after each completed capture the keys of the data map are the times
\* of the list, neither holding an entry the other lacks; and an accepted
\* capture whose to-the-second timestamp is already in the series (a forced
\* capture in the second of the last one) puts its snapshot in the place of
\* that entry's and leaves the list as it was, no entry added.
C30_SameSecondReplaces ==
    (race.serialized /\ RaceQuiet) =>
        /\ DOMAIN race.data = {race.times[i] : i \in 1..Len(race.times)}
        /\ \A c \in Calls :
               (OnlyReturned(c) /\ InList(race.initial.times, race.call[c].now)) =>
                   /\ race.times = race.initial.times
                   /\ race.data = [race.initial.data EXCEPT ![race.call[c].now] = c]

\* A forced capture in the second of the newest entry: the entry holds the
\* snapshot of the call, the list its two times.
C30_Witness ==
    /\ race.serialized
    /\ \E c \in Calls :
           /\ OnlyReturned(c)
           /\ race.initial = RecentSeries
           /\ race.call[c].now = MaxTime - 180
           /\ race.data[MaxTime - 180] = c
           /\ race.initial.data[MaxTime - 180] # c
           /\ Len(race.times) = 2
====
